---- MODULE Spec2Model ----
(***************************************************************************)
(* Cache abstraction (in-process and Redis backends), fixed-window rate    *)
(* limiter and permission service of the FastAPI starter boilerplate.      *)
(*                                                                         *)
(* Every client coroutine / remote client is a process p with a program    *)
(* counter pc[p], the frame of the cache operation it is in (l[p]) and the *)
(* frame of the service method that called it (sv[p]).  One action is one  *)
(* atomic step: a whole in-process cache operation (it runs under the      *)
(* single asyncio lock without awaiting), or one Redis command.            *)
(***************************************************************************)
EXTENDS Integers, Sequences, FiniteSets, TLC

VARIABLES
    backend,       \* settings.CACHE_TYPE: "memory" or "redis"
    now,           \* the wall clock, time.time(), in whole seconds
    cache,         \* InMemoryCacheService._cache : key -> CacheEntry
    cleanup_task,  \* InMemoryCacheService._cleanup_task: None or a sweep task
    tasks,         \* the sweep tasks created so far: task -> its status
    lock,          \* InMemoryCacheService._lock is held
    rdb,           \* the Redis database: key -> [val, exp]
    pc,            \* per process: where it is
    l,             \* per process: frame of the cache operation
    sv,            \* per process: frame of the service method
    repo,          \* relational store: user -> permission set
    rq,            \* per process: the HTTP request it is serving
    h              \* history of what has happened (observation only)

vars == <<backend, now, cache, cleanup_task, tasks, lock, rdb, pc, l, sv, repo, rq, h>>

-----------------------------------------------------------------------------
(* Bounds of the model *)

NumProcs == 2
CacheMaxTime == 2
CacheMaxOps == 3
MaxSliding == 2
IncrMaxTime == 3
IncrMaxOps == 3
IncrTTL == 2
RLMaxTime == 2
RLMaxOps == 2
MaxRequests == 1
WindowSeconds == 1
RouteRequests == 2
RouteWindow == 2
PermMaxOps == 3
PermMaxTime == 301
RbacMaxOps == 2
StaleMaxOps == 3
StaleMaxTime == 600
SweepMaxOps == 4
ShadowMaxOps == 3
ShadowMaxTime == 2
PeekMaxOps == 2
RoleMaxOps == 4
LiveMaxOps == 2
ReadMaxOps == 3
IsoMaxOps == 2
IsoMaxTime == 2
ReadMaxTime == 600
LiveMaxTime == 2
PeekMaxTime == 1

Procs == 1..NumProcs

(* Python's None for the int | None parameters (sliding_expiration, ttl) *)
None == 0 - 1

(* Python values that are stored in and returned from the cache *)
PyNone == [t |-> "None"]
PyInt(n) == [t |-> "int", v |-> n]
PyStr(s) == [t |-> "str", v |-> s]
PyBool(b) == [t |-> "bool", v |-> b]
PyList(s) == [t |-> "list", v |-> s]
PyTuple(s) == [t |-> "tuple", v |-> s]
PySet(s) == [t |-> "set", v |-> s]
PyExc(name) == [t |-> "exc", v |-> name]

IsExc(r) == r.t = "exc"

(* json.dumps / json.loads: the text keeps the value, a tuple becomes an   *)
(* array and therefore loads back as a list.                               *)
json_dumps(v) == [json |-> IF v.t = "tuple" THEN PyList(v.v) ELSE v]
json_loads(b) == b.json

(* str(int) as used in f-strings *)
Digit(d) == CASE d = 0 -> "0" [] d = 1 -> "1" [] d = 2 -> "2" [] d = 3 -> "3"
              [] d = 4 -> "4" [] d = 5 -> "5" [] d = 6 -> "6" [] d = 7 -> "7"
              [] d = 8 -> "8" [] OTHER -> "9"

RECURSIVE ToStr(_)
ToStr(n) == IF n < 10 THEN Digit(n) ELSE ToStr(n \div 10) \o Digit(n % 10)

Max(a, b) == IF a >= b THEN a ELSE b

-----------------------------------------------------------------------------
(* The Redis server: every command is atomic; a key whose expire time has  *)
(* passed does not exist for any command.                                  *)

EXPIRATION_META_PREFIX == "__cache_meta:"
MetaKey(key) == EXPIRATION_META_PREFIX \o key

Restrict(f, S) == [x \in S |-> f[x]]
Put(f, k, v) == [x \in DOMAIN f \cup {k} |-> IF x = k THEN v ELSE f[x]]

RAlive(db, k, t) == k \in DOMAIN db /\ (db[k].exp = None \/ t <= db[k].exp)
RPurge(db, t) == Restrict(db, {k \in DOMAIN db : RAlive(db, k, t)})

R_GET(db, k, t) == IF RAlive(db, k, t) THEN db[k].val ELSE PyNone
R_EXISTS(db, k, t) == IF RAlive(db, k, t) THEN 1 ELSE 0
R_SET(db, k, v, t) == Put(RPurge(db, t), k, [val |-> v, exp |-> None])
R_SETEX(db, k, s, v, t) == Put(RPurge(db, t), k, [val |-> v, exp |-> t + s])
R_EXPIRE(db, k, s, t) ==
    IF RAlive(db, k, t) THEN Put(RPurge(db, t), k, [val |-> db[k].val, exp |-> t + s])
    ELSE RPurge(db, t)
R_DEL(db, ks, t) == Restrict(RPurge(db, t), DOMAIN RPurge(db, t) \ ks)
R_DEL_count(db, ks, t) == Cardinality({k \in ks : RAlive(db, k, t)})
R_FLUSHDB(db) == Restrict(db, {})

(* INCRBY: a missing key counts as 0 and is created without expiry; an     *)
(* existing key keeps its expiry; a value that is no integer is an error.  *)
R_INCRBY_ok(db, k, t) == ~RAlive(db, k, t) \/ db[k].val.json.t = "int"
R_INCRBY_value(db, k, d, t) == IF RAlive(db, k, t) THEN db[k].val.json.v + d ELSE d
R_INCRBY(db, k, d, t) ==
    Put(RPurge(db, t), k,
        [val |-> json_dumps(PyInt(R_INCRBY_value(db, k, d, t))),
         exp |-> IF RAlive(db, k, t) THEN db[k].exp ELSE None])

-----------------------------------------------------------------------------
(* The in-process backend: CacheEntry and the dict *)

CacheEntry(value, sliding_expiration, last_accessed) ==
    [value |-> value, sliding_expiration |-> sliding_expiration,
     last_accessed |-> last_accessed]

is_expired(entry, t) ==
    IF entry.sliding_expiration = None THEN FALSE
    ELSE (t - entry.last_accessed) > entry.sliding_expiration

entry_refresh(entry, t) == [entry EXCEPT !.last_accessed = t]

(* _cleanup_expired: delete every expired entry *)
cleanup_expired(c, t) == Restrict(c, {k \in DOMAIN c : ~is_expired(c[k], t)})

(* get / refresh / exists delete an expired entry, get and refresh restart *)
(* the timer of a live one                                                 *)
mem_get_cache(c, key, t) ==
    IF key \notin DOMAIN c THEN c
    ELSE IF is_expired(c[key], t) THEN Restrict(c, DOMAIN c \ {key})
    ELSE [c EXCEPT ![key] = entry_refresh(c[key], t)]
mem_get_result(c, key, t) ==
    IF key \notin DOMAIN c THEN PyNone
    ELSE IF is_expired(c[key], t) THEN PyNone
    ELSE c[key].value

mem_set_cache(c, key, value, sliding_expiration, t) ==
    Put(c, key, CacheEntry(value, sliding_expiration, t))

mem_refresh_cache(c, key, t) == mem_get_cache(c, key, t)
mem_refresh_result(c, key, t) == key \in DOMAIN c /\ ~is_expired(c[key], t)

(* remove that reports the key and leaves the entry in the dict *)
mem_remove_keeps_entry(c, key) == c

mem_remove_cache(c, key) == Restrict(c, DOMAIN c \ {key})
mem_remove_result(c, key) == key \in DOMAIN c

mem_exists_cache(c, key, t) ==
    IF key \in DOMAIN c /\ is_expired(c[key], t) THEN Restrict(c, DOMAIN c \ {key})
    ELSE c
mem_exists_result(c, key, t) == key \in DOMAIN c /\ ~is_expired(c[key], t)

(* InMemoryCacheService defines no increment and ICacheService declares    *)
(* none: the attribute lookup fails.                                       *)
mem_has_increment == FALSE

-----------------------------------------------------------------------------
(* Processes and frames *)

(* frame of a cache operation: its arguments, what it has read so far and, *)
(* once it has returned, its result (an exception is a result of type exc) *)
NoFrame ==
    [op |-> "", key |-> "", val |-> PyNone, sliding |-> None, delta |-> 0,
     ttl |-> None, raw |-> PyNone, meta |-> PyNone, cont |-> "idle",
     res |-> PyNone, t0 |-> 0]

NoService ==
    [op |-> "", key |-> "", max_requests |-> 0, window |-> 0, cache_key |-> "",
     reset_at |-> 0, current_time |-> 0, retry_after |-> 0, user |-> "",
     perms |-> {}, task |-> None, user_ids |-> << >>, i |-> 0, res |-> PyNone]

CacheLabels ==
    {"get", "get_meta", "get_expire_key", "get_expire_meta",
     "set", "set_meta", "set_delmeta",
     "increment", "increment_expire",
     "refresh", "refresh_meta", "refresh_expire_key", "refresh_expire_meta",
     "remove", "exists", "clear"}

(* await self._cache.<op>(...): enter the operation, remember where to go  *)
(* when it returns                                                         *)
Call(p, op, key, val, sliding, delta, ttl, cont) ==
    /\ pc' = [pc EXCEPT ![p] = op]
    /\ l' = [l EXCEPT ![p] = [NoFrame EXCEPT !.op = op, !.key = key, !.val = val,
                                 !.sliding = sliding, !.delta = delta,
                                 !.ttl = ttl, !.cont = cont]]

(* the operation returns res (or raises it, when res is an exception) *)
Return(p, res) ==
    /\ pc' = [pc EXCEPT ![p] = l[p].cont]
    /\ l' = [l EXCEPT ![p].res = res]

(* the operation returns from its first step, taken at time now *)
ReturnAt(p, res) ==
    /\ pc' = [pc EXCEPT ![p] = l[p].cont]
    /\ l' = [l EXCEPT ![p].res = res, ![p].t0 = now]

Goto(p, label) == pc' = [pc EXCEPT ![p] = label]

-----------------------------------------------------------------------------
(* InMemoryCacheService: each method runs under self._lock and never       *)
(* awaits inside it, so a method is one step.  The step needs the lock     *)
(* free (acquire() then returns without suspending; a caller that finds it *)
(* held waits) and ends with the exit of the async-with block.             *)

(* the block is left with the lock still held *)
async_with_exit_held == TRUE

(* _lock after `async with self._lock:` is left, by return or by exception *)
async_with_exit == FALSE

MemGet(p) ==
    /\ backend = "memory" /\ pc[p] = "get" /\ ~lock
    /\ cache' = mem_get_cache(cache, l[p].key, now)
    /\ ReturnAt(p, mem_get_result(cache, l[p].key, now))
    /\ lock' = async_with_exit
    /\ UNCHANGED <<backend, now, cleanup_task, tasks, rdb, sv, repo>>

MemSet(p) ==
    /\ backend = "memory" /\ pc[p] = "set" /\ ~lock
    /\ cache' = mem_set_cache(cache, l[p].key, l[p].val, l[p].sliding, now)
    /\ ReturnAt(p, PyNone)
    /\ lock' = async_with_exit
    /\ UNCHANGED <<backend, now, cleanup_task, tasks, rdb, sv, repo>>

MemRefresh(p) ==
    /\ backend = "memory" /\ pc[p] = "refresh" /\ ~lock
    /\ cache' = mem_refresh_cache(cache, l[p].key, now)
    /\ ReturnAt(p, PyBool(mem_refresh_result(cache, l[p].key, now)))
    /\ lock' = async_with_exit
    /\ UNCHANGED <<backend, now, cleanup_task, tasks, rdb, sv, repo>>

MemRemove(p) ==
    /\ backend = "memory" /\ pc[p] = "remove" /\ ~lock
    /\ cache' = mem_remove_cache(cache, l[p].key)
    /\ ReturnAt(p, PyBool(mem_remove_result(cache, l[p].key)))
    /\ lock' = async_with_exit
    /\ UNCHANGED <<backend, now, cleanup_task, tasks, rdb, sv, repo>>

MemExists(p) ==
    /\ backend = "memory" /\ pc[p] = "exists" /\ ~lock
    /\ cache' = mem_exists_cache(cache, l[p].key, now)
    /\ ReturnAt(p, PyBool(mem_exists_result(cache, l[p].key, now)))
    /\ lock' = async_with_exit
    /\ UNCHANGED <<backend, now, cleanup_task, tasks, rdb, sv, repo>>

MemClear(p) ==
    /\ backend = "memory" /\ pc[p] = "clear" /\ ~lock
    /\ cache' = Restrict(cache, {})
    /\ ReturnAt(p, PyNone)
    /\ lock' = async_with_exit
    /\ UNCHANGED <<backend, now, cleanup_task, tasks, rdb, sv, repo>>

(* self._cache.increment on an InMemoryCacheService: AttributeError *)
MemIncrement(p) ==
    /\ backend = "memory" /\ pc[p] = "increment"
    /\ ~mem_has_increment
    /\ ReturnAt(p, PyExc("AttributeError"))
    /\ UNCHANGED <<backend, now, cache, cleanup_task, tasks, lock, rdb, sv, repo>>

(* one round of _cleanup_loop: _cleanup_expired under the lock *)
CleanupExpired ==
    /\ backend = "memory" /\ ~lock
    /\ \E t \in DOMAIN tasks : tasks[t] = "sleeping"
    /\ cache' = cleanup_expired(cache, now)
    /\ cache' # cache
    /\ lock' = async_with_exit
    /\ UNCHANGED <<backend, now, cleanup_task, tasks, rdb, pc, l, sv, repo>>

-----------------------------------------------------------------------------
(* RedisCacheService: one step per Redis command *)

RedisGet(p) ==
    /\ backend = "redis" /\ pc[p] = "get"
    /\ IF R_GET(rdb, l[p].key, now) = PyNone
       THEN ReturnAt(p, PyNone)
       ELSE /\ pc' = [pc EXCEPT ![p] = "get_meta"]
            /\ l' = [l EXCEPT ![p].raw = R_GET(rdb, l[p].key, now), ![p].t0 = now]
    /\ UNCHANGED <<backend, now, cache, cleanup_task, tasks, lock, rdb, sv, repo>>

(* _refresh_if_sliding: read the metadata key *)
RedisGetMeta(p) ==
    /\ backend = "redis" /\ pc[p] = "get_meta"
    /\ IF R_GET(rdb, MetaKey(l[p].key), now) = PyNone
          \/ R_GET(rdb, MetaKey(l[p].key), now).json.t # "int"
       THEN Return(p, json_loads(l[p].raw))
       ELSE /\ pc' = [pc EXCEPT ![p] = "get_expire_key"]
            /\ l' = [l EXCEPT ![p].meta = R_GET(rdb, MetaKey(l[p].key), now)]
    /\ UNCHANGED <<backend, now, cache, cleanup_task, tasks, lock, rdb, sv, repo>>

RedisGetExpireKey(p) ==
    /\ backend = "redis" /\ pc[p] = "get_expire_key"
    /\ rdb' = R_EXPIRE(rdb, l[p].key, l[p].meta.json.v, now)
    /\ Goto(p, "get_expire_meta")
    /\ UNCHANGED <<backend, now, cache, cleanup_task, tasks, lock, l, sv, repo>>

RedisGetExpireMeta(p) ==
    /\ backend = "redis" /\ pc[p] = "get_expire_meta"
    /\ rdb' = R_EXPIRE(rdb, MetaKey(l[p].key), l[p].meta.json.v, now)
    /\ Return(p, json_loads(l[p].raw))
    /\ UNCHANGED <<backend, now, cache, cleanup_task, tasks, lock, sv, repo>>

RedisSet(p) ==
    /\ backend = "redis" /\ pc[p] = "set"
    /\ IF l[p].sliding # None
       THEN /\ rdb' = R_SETEX(rdb, l[p].key, l[p].sliding, json_dumps(l[p].val), now)
            /\ Goto(p, "set_meta")
       ELSE /\ rdb' = R_SET(rdb, l[p].key, json_dumps(l[p].val), now)
            /\ Goto(p, "set_delmeta")
    /\ l' = [l EXCEPT ![p].t0 = now]
    /\ UNCHANGED <<backend, now, cache, cleanup_task, tasks, lock, sv, repo>>

RedisSetMeta(p) ==
    /\ backend = "redis" /\ pc[p] = "set_meta"
    /\ rdb' = R_SETEX(rdb, MetaKey(l[p].key), l[p].sliding,
                      json_dumps(PyInt(l[p].sliding)), now)
    /\ Return(p, PyNone)
    /\ UNCHANGED <<backend, now, cache, cleanup_task, tasks, lock, sv, repo>>

RedisSetDelMeta(p) ==
    /\ backend = "redis" /\ pc[p] = "set_delmeta"
    /\ rdb' = R_DEL(rdb, {MetaKey(l[p].key)}, now)
    /\ Return(p, PyNone)
    /\ UNCHANGED <<backend, now, cache, cleanup_task, tasks, lock, sv, repo>>

RedisIncrement(p) ==
    /\ backend = "redis" /\ pc[p] = "increment"
    /\ IF ~R_INCRBY_ok(rdb, l[p].key, now)
       THEN /\ ReturnAt(p, PyExc("ResponseError"))
            /\ rdb' = rdb
       ELSE /\ rdb' = R_INCRBY(rdb, l[p].key, l[p].delta, now)
            /\ IF l[p].ttl # None
                  /\ R_INCRBY_value(rdb, l[p].key, l[p].delta, now) = l[p].delta
               THEN /\ pc' = [pc EXCEPT ![p] = "increment_expire"]
                    /\ l' = [l EXCEPT
                               ![p].raw = PyInt(R_INCRBY_value(rdb, l[p].key, l[p].delta, now)),
                               ![p].t0 = now]
               ELSE ReturnAt(p, PyInt(R_INCRBY_value(rdb, l[p].key, l[p].delta, now)))
    /\ UNCHANGED <<backend, now, cache, cleanup_task, tasks, lock, sv, repo>>

RedisIncrementExpire(p) ==
    /\ backend = "redis" /\ pc[p] = "increment_expire"
    /\ rdb' = R_EXPIRE(rdb, l[p].key, l[p].ttl, now)
    /\ Return(p, l[p].raw)
    /\ UNCHANGED <<backend, now, cache, cleanup_task, tasks, lock, sv, repo>>

RedisRefresh(p) ==
    /\ backend = "redis" /\ pc[p] = "refresh"
    /\ IF R_EXISTS(rdb, l[p].key, now) = 0
       THEN ReturnAt(p, PyBool(FALSE))
       ELSE /\ pc' = [pc EXCEPT ![p] = "refresh_meta"]
            /\ l' = [l EXCEPT ![p].t0 = now]
    /\ UNCHANGED <<backend, now, cache, cleanup_task, tasks, lock, rdb, sv, repo>>

RedisRefreshMeta(p) ==
    /\ backend = "redis" /\ pc[p] = "refresh_meta"
    /\ IF R_GET(rdb, MetaKey(l[p].key), now) = PyNone
          \/ R_GET(rdb, MetaKey(l[p].key), now).json.t # "int"
       THEN Return(p, PyBool(TRUE))
       ELSE /\ pc' = [pc EXCEPT ![p] = "refresh_expire_key"]
            /\ l' = [l EXCEPT ![p].meta = R_GET(rdb, MetaKey(l[p].key), now)]
    /\ UNCHANGED <<backend, now, cache, cleanup_task, tasks, lock, rdb, sv, repo>>

RedisRefreshExpireKey(p) ==
    /\ backend = "redis" /\ pc[p] = "refresh_expire_key"
    /\ rdb' = R_EXPIRE(rdb, l[p].key, l[p].meta.json.v, now)
    /\ Goto(p, "refresh_expire_meta")
    /\ UNCHANGED <<backend, now, cache, cleanup_task, tasks, lock, l, sv, repo>>

RedisRefreshExpireMeta(p) ==
    /\ backend = "redis" /\ pc[p] = "refresh_expire_meta"
    /\ rdb' = R_EXPIRE(rdb, MetaKey(l[p].key), l[p].meta.json.v, now)
    /\ Return(p, PyBool(TRUE))
    /\ UNCHANGED <<backend, now, cache, cleanup_task, tasks, lock, sv, repo>>

RedisRemove(p) ==
    /\ backend = "redis" /\ pc[p] = "remove"
    /\ rdb' = R_DEL(rdb, {l[p].key, MetaKey(l[p].key)}, now)
    /\ ReturnAt(p, PyBool(R_DEL_count(rdb, {l[p].key, MetaKey(l[p].key)}, now) > 0))
    /\ UNCHANGED <<backend, now, cache, cleanup_task, tasks, lock, sv, repo>>

RedisExists(p) ==
    /\ backend = "redis" /\ pc[p] = "exists"
    /\ ReturnAt(p, PyBool(R_EXISTS(rdb, l[p].key, now) > 0))
    /\ UNCHANGED <<backend, now, cache, cleanup_task, tasks, lock, rdb, sv, repo>>

RedisClear(p) ==
    /\ backend = "redis" /\ pc[p] = "clear"
    /\ rdb' = R_FLUSHDB(rdb)
    /\ ReturnAt(p, PyNone)
    /\ UNCHANGED <<backend, now, cache, cleanup_task, tasks, lock, sv, repo>>

(* the clock advances by d seconds; Redis drops the keys whose expire time *)
(* has passed                                                              *)
Advance(d, maxTime) ==
    /\ now + d <= maxTime
    /\ now' = now + d
    /\ rdb' = RPurge(rdb, now + d)
    /\ UNCHANGED <<backend, cache, cleanup_task, tasks, lock, pc, l, sv, repo>>

Tick(maxTime) == Advance(1, maxTime)

-----------------------------------------------------------------------------
(* Initial state: the container has built the configured backend; the      *)
(* in-process backend has its sweep task started.                          *)

EmptyMap == [x \in {} |-> PyNone]

Users == {"u1"}
Permissions == {"permission.users.view"}

CacheKeys == {"k"}
CacheVals == {PyStr("a"), PyStr("b")}
Slidings == {None} \cup (1..MaxSliding)

Unpinned == [t |-> "unpinned"]
NoAcc == [on |-> FALSE, v |-> PyNone, s |-> 0, lo |-> 0, hi |-> 0]
NoMust == [kind |-> "", v |-> PyNone, until |-> 0]
NoObs == [clean |-> FALSE, must |-> NoMust]

(* what has been seen of the increments of the counter key *)
NoInc ==
    [n |-> 0, nret |-> 0, rets |-> {}, plain |-> TRUE, uniform |-> TRUE,
     d0 |-> 0, ttl0 |-> None, creator |-> 0, late |-> FALSE, expAt |-> None]

(* what has been seen of one rate-limit call: its place among the          *)
(* increments of its window key, the counter before and after its own      *)
(* increment, and whether that increment ran before the window ended       *)
NoStep == [idx |-> 0, before |-> 0, after |-> 0, inwin |-> FALSE]

(* what has been seen of one get_user_permissions call: what the last      *)
(* invalidation of its user did, if nothing has written the user's key     *)
(* since ("removed", "absent", or "" when there is none), whether the      *)
(* repository was queried and what the query found                         *)
NoGup ==
    [after_inv |-> "", queried |-> FALSE, found |-> {}, got |-> PyNone, nq |-> 0,
     stored |-> FALSE, due |-> FALSE]

(* the last change of a user's permissions in the store: when it was made, *)
(* the set before it, and what invalidation of the user has done since     *)
(* ("none", "started", "returned"), and whether a read of the repository   *)
(* made before the change has been written to the cache after it, and the *)
(* process that made the change (0: made directly in the store)            *)
NoChg == [at |-> None, old |-> {}, inv |-> "none", late |-> FALSE, by |-> 0]

(* one get_user_permissions call: when it started, whether it started      *)
(* after the invalidation that followed the last change had returned, and  *)
(* whether it has read the repository before the last change, and whether *)
(* one of its cache calls raised                                           *)
NoRg ==
    [start |-> 0, after_inv |-> FALSE, queried |-> FALSE, stale |-> FALSE,
     raised |-> FALSE]

(* no request: the process serves none. A request carries its route, the  *)
(* client address and whether its bearer token is valid; the pipeline      *)
(* fills in the result of the global rate-limit check (mw), the rate-limit *)
(* checks that have counted it, the check that limited it, whether a cache *)
(* call of a rate-limit check raised, the permissions the route requires,  *)
(* the user's permission set and the checker's verdict, whether the        *)
(* business handler ran and with what outcome, and the response's status   *)
(* and headers                                                             *)
NoRequest ==
    [stage |-> "none", route |-> "", ip |-> "", user |-> "", token |-> FALSE,
     mw |-> PyNone, counted |-> {}, limited_by |-> "", cache_error |-> FALSE,
     required |-> << >>, require_all |-> FALSE, perms |-> {}, granted |-> PyNone,
     handler |-> FALSE, outcome |-> "", status |-> 0, headers |-> {}]

H0 ==
    [ops |-> 0,
     pinned |-> [k \in CacheKeys |-> Unpinned],
     acc |-> [k \in CacheKeys |-> NoAcc],
     obs |-> [p \in Procs |-> NoObs],
     call |-> [p \in Procs |-> 0],
     inc |-> NoInc,
     rl |-> EmptyMap,
     step |-> [p \in Procs |-> NoStep],
     inv |-> [u \in Users |-> ""],
     gup |-> [p \in Procs |-> NoGup],
     chg |-> [u \in Users |-> NoChg],
     old_entry |-> [u \in Users |-> FALSE],
     rg |-> [p \in Procs |-> NoRg],
     shadow |-> EmptyMap,
     rd |-> [u \in Users |-> None],
     iso |-> [p \in Procs |->
                [kind |-> "", path |-> "", client |-> "", window |-> 0, start |-> 0]],
     pre |-> [cache |-> EmptyMap, rdb |-> EmptyMap, queried |-> FALSE],
     sres |-> [p \in Procs |-> PyNone]]

Init ==
    /\ backend \in {"memory", "redis"}
    /\ now = 0
    /\ cache = EmptyMap
    /\ cleanup_task = (IF backend = "memory" THEN 1 ELSE None)
    /\ tasks = (IF backend = "memory" THEN <<"sleeping">> ELSE << >>)
    /\ lock = FALSE
    /\ rdb = EmptyMap
    /\ pc = [p \in Procs |-> "idle"]
    /\ l = [p \in Procs |-> NoFrame]
    /\ sv = [p \in Procs |-> NoService]
    /\ repo = [u \in Users |-> {}]
    /\ rq = [p \in Procs |-> NoRequest]
    /\ h = H0

-----------------------------------------------------------------------------
(* Clients of the cache itself (the cache endpoints, any service) *)

ClientGet(p, key) ==
    /\ pc[p] = "idle"
    /\ Call(p, "get", key, PyNone, None, 0, None, "idle")
    /\ UNCHANGED <<backend, now, cache, cleanup_task, tasks, lock, rdb, sv, repo>>

ClientSet(p, key, value, sliding_expiration) ==
    /\ pc[p] = "idle"
    /\ Call(p, "set", key, value, sliding_expiration, 0, None, "idle")
    /\ UNCHANGED <<backend, now, cache, cleanup_task, tasks, lock, rdb, sv, repo>>

ClientRefresh(p, key) ==
    /\ pc[p] = "idle"
    /\ Call(p, "refresh", key, PyNone, None, 0, None, "idle")
    /\ UNCHANGED <<backend, now, cache, cleanup_task, tasks, lock, rdb, sv, repo>>

ClientRemove(p, key) ==
    /\ pc[p] = "idle"
    /\ Call(p, "remove", key, PyNone, None, 0, None, "idle")
    /\ UNCHANGED <<backend, now, cache, cleanup_task, tasks, lock, rdb, sv, repo>>

ClientExists(p, key) ==
    /\ pc[p] = "idle"
    /\ Call(p, "exists", key, PyNone, None, 0, None, "idle")
    /\ UNCHANGED <<backend, now, cache, cleanup_task, tasks, lock, rdb, sv, repo>>

ClientClear(p) ==
    /\ pc[p] = "idle"
    /\ Call(p, "clear", "", PyNone, None, 0, None, "idle")
    /\ UNCHANGED <<backend, now, cache, cleanup_task, tasks, lock, rdb, sv, repo>>

ClientIncrement(p, key, delta, ttl) ==
    /\ pc[p] = "idle"
    /\ Call(p, "increment", key, PyNone, None, delta, ttl, "idle")
    /\ UNCHANGED <<backend, now, cache, cleanup_task, tasks, lock, rdb, sv, repo>>

-----------------------------------------------------------------------------
(* Observation of the cache operations (history only, read by the          *)
(* properties; no action of the program reads h).                          *)

MutatorOps == {"set", "remove", "clear", "increment"}
MutatorLabels ==
    {"set", "set_meta", "set_delmeta", "remove", "clear", "increment",
     "increment_expire"}
TouchLabels ==
    {"get", "get_meta", "get_expire_key", "get_expire_meta",
     "refresh", "refresh_meta", "refresh_expire_key", "refresh_expire_meta"}

Called(p) == pc[p] = "idle" /\ pc'[p] \in CacheLabels
Returned(p) == pc[p] \in CacheLabels /\ pc'[p] = l[p].cont
CalledMutator(p, k) ==
    Called(p) /\ l'[p].op \in MutatorOps /\ (l'[p].key = k \/ l'[p].op = "clear")
(* before the step, a mutating operation of another process on k is under way *)
MutatorInFlight(p, k) ==
    \E q \in Procs \ {p} :
        pc[q] \in MutatorLabels /\ (l[q].key = k \/ l[q].op = "clear")

(* clean[q]: no other mutating operation on its key was under way when q's *)
(* operation was called, and none has been called since                    *)
CleanNext(p, q) ==
    IF q = p
    THEN IF Called(p) THEN ~MutatorInFlight(p, l'[p].key) ELSE h.obs[q].clean
    ELSE IF CalledMutator(p, l[q].key) THEN FALSE ELSE h.obs[q].clean

(* pinned[k] = v: set(k, v, None) has completed, on its own (clean), and   *)
(* no set, remove, clear or increment of k has been called since           *)
PinnedNext(p, k) ==
    IF CalledMutator(p, k) THEN Unpinned
    ELSE IF Returned(p) /\ l[p].op = "set" /\ l[p].key = k /\ l[p].sliding = None
            /\ h.obs[p].clean
    THEN l[p].val
    ELSE h.pinned[k]

(* acc[k]: k was set with sliding expiration s and value v (the set has    *)
(* completed, no mutator called since); lo = the time of the set's write   *)
(* or of the arrival of the last get that was due a hit, hi = the time of  *)
(* the latest step of any get or refresh of k.                             *)
AccNext(p, k) ==
    IF CalledMutator(p, k) THEN NoAcc
    ELSE IF Returned(p) /\ l[p].op = "set" /\ l[p].key = k /\ l[p].sliding # None
            /\ h.obs[p].clean
    THEN [on |-> TRUE, v |-> l[p].val, s |-> l[p].sliding, lo |-> l'[p].t0, hi |-> now]
    ELSE IF h.acc[k].on /\ pc[p] \in TouchLabels /\ l[p].key = k
    THEN IF pc[p] = "get" /\ now <= h.acc[k].lo + h.acc[k].s
         THEN [h.acc[k] EXCEPT !.lo = now, !.hi = Max(h.acc[k].hi, now)]
         ELSE IF pc[p] = "get" /\ now > h.acc[k].hi + h.acc[k].s
         THEN NoAcc
         ELSE [h.acc[k] EXCEPT !.hi = Max(h.acc[k].hi, now)]
    ELSE h.acc[k]

(* must[q]: what the get that q is in owes, fixed when it arrives *)
MustNext(p, q) ==
    IF q # p
    THEN IF l[q].key \in CacheKeys /\ CalledMutator(p, l[q].key) THEN NoMust
         ELSE h.obs[q].must
    ELSE IF Called(p) THEN NoMust
    ELSE IF pc[p] = "get" /\ l[p].key \in CacheKeys /\ h.acc[l[p].key].on
    THEN IF now <= h.acc[l[p].key].lo + h.acc[l[p].key].s
         THEN [kind |-> "hit", v |-> h.acc[l[p].key].v, until |-> now + h.acc[l[p].key].s]
         ELSE IF now > h.acc[l[p].key].hi + h.acc[l[p].key].s
         THEN [kind |-> "miss", v |-> PyNone, until |-> 0]
         ELSE NoMust
    ELSE h.obs[q].must

ObserveCache(p) ==
    h' = [h EXCEPT !.ops = IF Called(p) THEN h.ops + 1 ELSE h.ops,
                   !.call[p] = IF Called(p) THEN h.ops + 1 ELSE h.call[p],
                   !.pinned = [k \in CacheKeys |-> PinnedNext(p, k)],
                   !.acc = [k \in CacheKeys |-> AccNext(p, k)],
                   !.obs = [q \in Procs |->
                              [clean |-> CleanNext(p, q), must |-> MustNext(p, q)]]]

-----------------------------------------------------------------------------
(* The cache under concurrent clients, the sweep and the clock *)

NextCache ==
    \/ \E p \in Procs, k \in CacheKeys : h.ops < CacheMaxOps /\ ClientGet(p, k) /\ ObserveCache(p) /\ UNCHANGED rq
    \/ \E p \in Procs, k \in CacheKeys, v \in CacheVals, s \in Slidings :
          h.ops < CacheMaxOps /\ ClientSet(p, k, v, s) /\ ObserveCache(p) /\ UNCHANGED rq
    \/ \E p \in Procs, k \in CacheKeys : h.ops < CacheMaxOps /\ ClientRefresh(p, k) /\ ObserveCache(p) /\ UNCHANGED rq
    \/ \E p \in Procs, k \in CacheKeys : h.ops < CacheMaxOps /\ ClientRemove(p, k) /\ ObserveCache(p) /\ UNCHANGED rq
    \/ \E p \in Procs, k \in CacheKeys : h.ops < CacheMaxOps /\ ClientExists(p, k) /\ ObserveCache(p) /\ UNCHANGED rq
    \/ \E p \in Procs : h.ops < CacheMaxOps /\ ClientClear(p) /\ ObserveCache(p) /\ UNCHANGED rq
    \/ \E p \in Procs : MemGet(p) /\ ObserveCache(p) /\ UNCHANGED rq
    \/ \E p \in Procs : MemSet(p) /\ ObserveCache(p) /\ UNCHANGED rq
    \/ \E p \in Procs : MemRefresh(p) /\ ObserveCache(p) /\ UNCHANGED rq
    \/ \E p \in Procs : MemRemove(p) /\ ObserveCache(p) /\ UNCHANGED rq
    \/ \E p \in Procs : MemExists(p) /\ ObserveCache(p) /\ UNCHANGED rq
    \/ \E p \in Procs : MemClear(p) /\ ObserveCache(p) /\ UNCHANGED rq
    \/ CleanupExpired /\ UNCHANGED <<h, rq>>
    \/ \E p \in Procs : RedisGet(p) /\ ObserveCache(p) /\ UNCHANGED rq
    \/ \E p \in Procs : RedisGetMeta(p) /\ ObserveCache(p) /\ UNCHANGED rq
    \/ \E p \in Procs : RedisGetExpireKey(p) /\ ObserveCache(p) /\ UNCHANGED rq
    \/ \E p \in Procs : RedisGetExpireMeta(p) /\ ObserveCache(p) /\ UNCHANGED rq
    \/ \E p \in Procs : RedisSet(p) /\ ObserveCache(p) /\ UNCHANGED rq
    \/ \E p \in Procs : RedisSetMeta(p) /\ ObserveCache(p) /\ UNCHANGED rq
    \/ \E p \in Procs : RedisSetDelMeta(p) /\ ObserveCache(p) /\ UNCHANGED rq
    \/ \E p \in Procs : RedisRefresh(p) /\ ObserveCache(p) /\ UNCHANGED rq
    \/ \E p \in Procs : RedisRefreshMeta(p) /\ ObserveCache(p) /\ UNCHANGED rq
    \/ \E p \in Procs : RedisRefreshExpireKey(p) /\ ObserveCache(p) /\ UNCHANGED rq
    \/ \E p \in Procs : RedisRefreshExpireMeta(p) /\ ObserveCache(p) /\ UNCHANGED rq
    \/ \E p \in Procs : RedisRemove(p) /\ ObserveCache(p) /\ UNCHANGED rq
    \/ \E p \in Procs : RedisExists(p) /\ ObserveCache(p) /\ UNCHANGED rq
    \/ \E p \in Procs : RedisClear(p) /\ ObserveCache(p) /\ UNCHANGED rq
    \/ Tick(CacheMaxTime) /\ UNCHANGED <<h, rq>>

SpecCache == Init /\ [][NextCache]_vars

(* in the state (c, db, t): the key is present and will not expire before u *)
LiveUntil(c, db, t, k, u) ==
    IF backend = "memory"
    THEN /\ k \in DOMAIN c
         /\ ~is_expired(c[k], t)
         /\ \/ c[k].sliding_expiration = None
            \/ c[k].last_accessed + c[k].sliding_expiration >= u
    ELSE /\ RAlive(db, k, t)
         /\ (db[k].exp = None \/ db[k].exp >= u)

Absent(c, db, t, k) ==
    IF backend = "memory" THEN k \notin DOMAIN c ELSE ~RAlive(db, k, t)

(* the key holds v and has no expiration *)
HeldForever(c, db, t, k, v) ==
    IF backend = "memory"
    THEN /\ k \in DOMAIN c
         /\ c[k].value = v
         /\ c[k].sliding_expiration = None
    ELSE /\ RAlive(db, k, t)
         /\ json_loads(db[k].val) = v
         /\ db[k].exp = None

GetReturned(p) == pc[p] \in {"get", "get_meta", "get_expire_meta"} /\ pc'[p] = "idle"

(* C8: a get that arrives no more than s after the set or the previous     *)
(* successful get of a key with sliding expiration s returns the value and *)
(* leaves the key alive until s seconds after its arrival (when it returns *)
(* before that time); a get that arrives more than s after the last access *)
(* returns None and leaves no entry.                                       *)
C8_SlidingExpiration ==
    [][\A p \in Procs :
          GetReturned(p) =>
             /\ h'.obs[p].must.kind = "hit" =>
                   /\ l'[p].res = h'.obs[p].must.v
                   /\ now' <= h'.obs[p].must.until =>
                         LiveUntil(cache', rdb', now', l[p].key, h'.obs[p].must.until)
             /\ h'.obs[p].must.kind = "miss" =>
                   /\ l'[p].res = PyNone
                   /\ Absent(cache', rdb', now', l[p].key)]_vars

(* C9: once set(key, v, None) has completed, the key stays present with    *)
(* value v and without expiry until a remove, a clear or a later set.      *)
C9_NoExpirationInvariant ==
    \A k \in CacheKeys : h.pinned[k] # Unpinned => HeldForever(cache, rdb, now, k, h.pinned[k])

-----------------------------------------------------------------------------
(* Concurrent increments of one counter key *)

IncrKey == "c"
Deltas == {0, 1}
IncrTTLs == {None, IncrTTL}

Counter(c, db, t, k) ==
    IF backend = "memory"
    THEN IF k \in DOMAIN c /\ ~is_expired(c[k], t) THEN c[k].value ELSE PyNone
    ELSE IF RAlive(db, k, t) THEN json_loads(db[k].val) ELSE PyNone

(* n calls so far, nret of them returned, with results rets; plain: every  *)
(* call was increment(key, 1); uniform: every call had the same delta and  *)
(* the same ttl; creator: the call whose INCRBY created the key that is    *)
(* there now; late: a call other than the creator applied a TTL; expAt:    *)
(* the expire time the creator's EXPIRE gave the key.                      *)
IncNext(p) ==
    IF Called(p)
    THEN [h.inc EXCEPT
            !.n = h.inc.n + 1,
            !.plain = h.inc.plain /\ l'[p].delta = 1 /\ l'[p].ttl = None,
            !.uniform = /\ h.inc.uniform /\ l'[p].ttl # None
                        /\ (h.inc.n > 0 => l'[p].delta = h.inc.d0 /\ l'[p].ttl = h.inc.ttl0),
            !.d0 = IF h.inc.n = 0 THEN l'[p].delta ELSE h.inc.d0,
            !.ttl0 = IF h.inc.n = 0 THEN l'[p].ttl ELSE h.inc.ttl0]
    ELSE LET created == pc[p] = "increment" /\ backend = "redis"
                        /\ ~RAlive(rdb, l[p].key, now)
             expires == pc[p] = "increment_expire"
         IN [h.inc EXCEPT
               !.nret = IF Returned(p) THEN h.inc.nret + 1 ELSE h.inc.nret,
               !.rets = IF Returned(p) THEN h.inc.rets \cup {l'[p].res} ELSE h.inc.rets,
               !.creator = IF created THEN h.call[p] ELSE h.inc.creator,
               !.expAt = IF created THEN None
                         ELSE IF expires /\ h.call[p] = h.inc.creator
                                 /\ RAlive(rdb, l[p].key, now)
                         THEN now + l[p].ttl
                         ELSE h.inc.expAt,
               !.late = h.inc.late
                        \/ (expires /\ h.call[p] # h.inc.creator
                            /\ RAlive(rdb, l[p].key, now))]

ObserveIncr(p) ==
    h' = [h EXCEPT !.ops = IF Called(p) THEN h.ops + 1 ELSE h.ops,
                   !.call[p] = IF Called(p) THEN h.ops + 1 ELSE h.call[p],
                   !.inc = IncNext(p)]

NextIncr ==
    \/ \E p \in Procs, d \in Deltas, ttl \in IncrTTLs :
          h.ops < IncrMaxOps /\ ClientIncrement(p, IncrKey, d, ttl) /\ ObserveIncr(p) /\ UNCHANGED rq
    \/ \E p \in Procs : MemIncrement(p) /\ ObserveIncr(p) /\ UNCHANGED rq
    \/ \E p \in Procs : RedisIncrement(p) /\ ObserveIncr(p) /\ UNCHANGED rq
    \/ \E p \in Procs : RedisIncrementExpire(p) /\ ObserveIncr(p) /\ UNCHANGED rq
    \/ Tick(IncrMaxTime) /\ UNCHANGED <<h, rq>>

SpecIncr == Init /\ [][NextIncr]_vars

(* C1: N concurrent increment(key, 1) calls on a fresh key, in either      *)
(* backend, leave the counter at N and return each of 1..N exactly once.   *)
C1_IncrementAtomicity ==
    (h.inc.plain /\ h.inc.n >= 1 /\ h.inc.nret = h.inc.n) =>
        /\ h.inc.rets = {PyInt(i) : i \in 1..h.inc.n}
        /\ Counter(cache, rdb, now, IncrKey) = PyInt(h.inc.n)

(* C7: with increment(key, delta, ttl=T) called repeatedly on a key that   *)
(* did not exist, only the call that creates the key applies the TTL, the  *)
(* key expires T after that call whatever later calls do, and once the     *)
(* creating call has returned the key is never without an expiry.          *)
C7_FirstWriteTTL ==
    (backend = "redis" /\ h.inc.uniform /\ h.inc.n >= 1) =>
        /\ ~h.inc.late
        /\ (RAlive(rdb, IncrKey, now) /\ h.inc.expAt # None) =>
              rdb[IncrKey].exp = h.inc.expAt
        /\ (RAlive(rdb, IncrKey, now) /\ h.inc.nret = h.inc.n) =>
              rdb[IncrKey].exp # None

-----------------------------------------------------------------------------
(* RateLimitService *)

CACHE_KEY_PREFIX == "ratelimit"

(* _get_window_key at time t: (cache_key, window_end) *)
window_start(t, window) == (t \div window) * window
window_key(key, t, window) ==
    CACHE_KEY_PREFIX \o ":" \o key \o ":" \o ToStr(window_start(t, window))
window_end(t, window) == window_start(t, window) + window

RateLimitResult(is_limited, limit, remaining, reset_at, retry_after) ==
    [t |-> "RateLimitResult", is_limited |-> is_limited, limit |-> limit,
     remaining |-> remaining, reset_at |-> reset_at, retry_after |-> retry_after]

(* retry_after without the clamp at 0 *)
retry_after_unclamped(reset_at, current_time) == reset_at - current_time

(* retry_after = max(0, reset_at - current_time) *)
retry_after_of(reset_at, current_time) == Max(0, reset_at - current_time)

(* the limit test with >= in place of > *)
is_limited_at_limit(new_count, max_requests) == new_count >= max_requests

is_limited_of(new_count, max_requests) == new_count > max_requests
remaining_of(new_count, max_requests) == Max(0, max_requests - new_count)

(* the ttl handed to increment *)
counter_ttl(window) == window + 1

(* the limiting keys: the global middleware uses the client address, the   *)
(* per-route dependency "{key_prefix or path}:{client_ip}"                 *)
ClientIps == {"1.2.3.4"}
RoutePaths == {"/login"}
route_key(path, client_ip) == path \o ":" \o client_ip

(* check_rate_limit(key): _get_window_key reads the clock *)
CheckRateLimit(p, key) ==
    /\ pc[p] = "idle"
    /\ pc' = [pc EXCEPT ![p] = "rl_time"]
    /\ sv' = [sv EXCEPT ![p] =
                [NoService EXCEPT !.op = "check_rate_limit", !.key = key,
                                  !.max_requests = MaxRequests,
                                  !.window = WindowSeconds,
                                  !.cache_key = window_key(key, now, WindowSeconds),
                                  !.reset_at = window_end(now, WindowSeconds)]]
    /\ UNCHANGED <<backend, now, cache, cleanup_task, tasks, lock, rdb, l, repo>>

(* check_rate_limit_custom(key, max_requests, window_seconds) *)
CheckRateLimitCustom(p, key, max_requests, window_seconds) ==
    /\ pc[p] = "idle"
    /\ pc' = [pc EXCEPT ![p] = "rl_time"]
    /\ sv' = [sv EXCEPT ![p] =
                [NoService EXCEPT !.op = "check_rate_limit_custom", !.key = key,
                                  !.max_requests = max_requests,
                                  !.window = window_seconds,
                                  !.cache_key = window_key(key, now, window_seconds),
                                  !.reset_at = window_end(now, window_seconds)]]
    /\ UNCHANGED <<backend, now, cache, cleanup_task, tasks, lock, rdb, l, repo>>

(* current_time = int(time.time()); retry_after; await increment(...) *)
RLReadTime(p) ==
    /\ pc[p] = "rl_time"
    /\ sv' = [sv EXCEPT ![p].current_time = now,
                        ![p].retry_after = retry_after_of(sv[p].reset_at, now)]
    /\ Call(p, "increment", sv[p].cache_key, PyNone, None, 1,
            counter_ttl(sv[p].window), "rl_result")
    /\ UNCHANGED <<backend, now, cache, cleanup_task, tasks, lock, rdb, repo>>

(* the increment has returned: build the result; an exception propagates *)
RLResult(p) ==
    /\ pc[p] = "rl_result"
    /\ pc' = [pc EXCEPT ![p] = "rl_return"]
    /\ sv' = [sv EXCEPT ![p].res =
                IF IsExc(l[p].res) THEN l[p].res
                ELSE RateLimitResult(
                        is_limited_of(l[p].res.v, sv[p].max_requests),
                        sv[p].max_requests,
                        remaining_of(l[p].res.v, sv[p].max_requests),
                        sv[p].reset_at,
                        IF is_limited_of(l[p].res.v, sv[p].max_requests)
                        THEN sv[p].retry_after ELSE 0)]
    /\ UNCHANGED <<backend, now, cache, cleanup_task, tasks, lock, rdb, l, repo>>

(* the result (or the exception) goes to the caller and the call's frames *)
(* are gone                                                                *)
RLReturn(p) ==
    /\ pc[p] = "rl_return"
    /\ pc' = [pc EXCEPT ![p] = "idle"]
    /\ sv' = [sv EXCEPT ![p] = NoService]
    /\ l' = [l EXCEPT ![p] = NoFrame]
    /\ UNCHANGED <<backend, now, cache, cleanup_task, tasks, lock, rdb, repo>>

-----------------------------------------------------------------------------
(* Observation of the rate limiter *)

CounterInt(c, db, t, k) ==
    IF Counter(c, db, t, k) = PyNone THEN 0 ELSE Counter(c, db, t, k).v

(* rl[ck]: the calls made for the window key ck (their _get_window_key ran *)
(* in the window that ends at "end") and how many of them have run their   *)
(* increment                                                               *)
RlNext(p) ==
    IF pc[p] = "idle" /\ pc'[p] = "rl_time"
    THEN Put(h.rl, sv'[p].cache_key,
             IF sv'[p].cache_key \in DOMAIN h.rl
             THEN [h.rl[sv'[p].cache_key] EXCEPT !.made = @ + 1]
             ELSE [made |-> 1, done |-> 0, end |-> sv'[p].reset_at])
    ELSE IF pc[p] = "increment"
    THEN [h.rl EXCEPT ![l[p].key].done = @ + 1]
    ELSE h.rl

StepNext(p) ==
    IF pc[p] = "rl_return" THEN NoStep
    ELSE IF pc[p] = "increment"
    THEN [idx |-> h.rl[l[p].key].done + 1,
          before |-> CounterInt(cache, rdb, now, l[p].key),
          after |-> CounterInt(cache', rdb', now', l[p].key),
          inwin |-> now < h.rl[l[p].key].end]
    ELSE h.step[p]

ObserveRL(p) ==
    h' = [h EXCEPT !.ops = IF pc[p] = "idle" THEN h.ops + 1 ELSE h.ops,
                   !.rl = RlNext(p),
                   !.step[p] = StepNext(p)]

(* no check is between the return of its increment and its own return:    *)
(* that stretch is straight-line code that never reads the clock, so a     *)
(* tick during it is the same as the tick right after it                   *)
ClockUnread == \A p \in Procs : pc[p] \notin {"rl_result", "rl_return"}

NextRL ==
    \/ \E p \in Procs, ip \in ClientIps :
          h.ops < RLMaxOps /\ CheckRateLimit(p, ip) /\ ObserveRL(p) /\ UNCHANGED rq
    \/ \E p \in Procs, path \in RoutePaths, ip \in ClientIps :
          /\ h.ops < RLMaxOps
          /\ CheckRateLimitCustom(p, route_key(path, ip), RouteRequests, RouteWindow)
          /\ ObserveRL(p) /\ UNCHANGED rq
    \/ \E p \in Procs : RLReadTime(p) /\ ObserveRL(p) /\ UNCHANGED rq
    \/ \E p \in Procs : MemIncrement(p) /\ ObserveRL(p) /\ UNCHANGED rq
    \/ \E p \in Procs : RedisIncrement(p) /\ ObserveRL(p) /\ UNCHANGED rq
    \/ \E p \in Procs : RedisIncrementExpire(p) /\ ObserveRL(p) /\ UNCHANGED rq
    \/ \E p \in Procs : RLResult(p) /\ ObserveRL(p) /\ UNCHANGED rq
    \/ \E p \in Procs : RLReturn(p) /\ ObserveRL(p) /\ UNCHANGED rq
    \/ ClockUnread /\ Tick(RLMaxTime) /\ UNCHANGED <<h, rq>>

SpecRL == Init /\ [][NextRL]_vars

(* a rate-limit check of p has finished and is handing over its result *)
Checked(p) == pc[p] = "rl_return"

(* C2: on every backend each check returns a RateLimitResult and raises    *)
(* the counter of its window key by exactly one.                           *)
C2_WorksOnEveryBackend ==
    \A p \in Procs :
        Checked(p) =>
            /\ sv[p].res.t = "RateLimitResult"
            /\ h.step[p].after = h.step[p].before + 1

(* a finished check whose increment returned a count *)
Counted(p) == Checked(p) /\ ~IsExc(l[p].res)

(* C3: for every check whose increment returned newCount the result has    *)
(* is_limited = (newCount > max_requests), remaining = max(0, max_requests *)
(* - newCount) and limit = max_requests; and of the increments of one      *)
(* window key that ran before the window ended, the max_requests-th is not *)
(* limited with remaining 0 and every later one is limited with            *)
(* remaining 0.                                                            *)
C3_ResultFormula ==
    \A p \in Procs :
        Counted(p) =>
            LET n == l[p].res.v
                m == sv[p].max_requests
                r == sv[p].res
                i == h.step[p].idx
            IN  /\ r.is_limited = (n > m)
                /\ r.remaining = (IF m - n > 0 THEN m - n ELSE 0)
                /\ r.limit = m
                /\ h.step[p].inwin /\ i = m => ~r.is_limited /\ r.remaining = 0
                /\ h.step[p].inwin /\ i > m => r.is_limited /\ r.remaining = 0

(* a check that was the (max_requests+1)-th of its window has returned *)
C3_Witness ==
    \E p \in Procs :
        /\ Counted(p)
        /\ h.step[p].inwin
        /\ h.step[p].idx = sv[p].max_requests + 1
        /\ sv[p].res.is_limited

(* C4 as stated: a limited result has 0 < retry_after <= window, a result  *)
(* that is not limited has retry_after = 0.                                *)
C4_RetryAfterPositive ==
    \A p \in Procs :
        Counted(p) =>
            IF sv[p].res.is_limited
            THEN sv[p].res.retry_after > 0 /\ sv[p].res.retry_after <= sv[p].window
            ELSE sv[p].res.retry_after = 0

(* C4 as the code has it: a limited result has retry_after = max(0,        *)
(* reset_at - current_time) for the second clock reading current_time, so  *)
(* 0 <= retry_after <= window, and retry_after > 0 when that reading is    *)
(* before the window end; a result that is not limited has retry_after 0.  *)
C4_RetryAfter ==
    \A p \in Procs :
        Counted(p) =>
            LET r == sv[p].res
                d == sv[p].reset_at - sv[p].current_time
            IN  IF r.is_limited
                THEN /\ r.retry_after = (IF d > 0 THEN d ELSE 0)
                     /\ r.retry_after >= 0
                     /\ r.retry_after <= sv[p].window
                     /\ sv[p].current_time < sv[p].reset_at => r.retry_after > 0
                ELSE r.retry_after = 0

(* a limited result whose second clock reading was past the window end *)
C4_Witness ==
    \E p \in Procs :
        /\ Counted(p)
        /\ sv[p].res.is_limited
        /\ sv[p].current_time >= sv[p].reset_at

(* C5: the check whose increment is the first of its window key returns    *)
(* count 1: a result that is not limited, remaining = max_requests - 1,    *)
(* whatever was counted in earlier windows.                                *)
C5_FreshWindow ==
    \A p \in Procs :
        Checked(p) /\ h.step[p].idx = 1 =>
            /\ sv[p].res.t = "RateLimitResult"
            /\ h.step[p].before = 0
            /\ h.step[p].after = 1
            /\ ~sv[p].res.is_limited
            /\ sv[p].res.remaining = sv[p].max_requests - 1

(* C6: until its window has ended, the stored counter of a window key      *)
(* equals the number of checks of that key that have reached their         *)
(* increment.                                                              *)
C6_CounterInvariant ==
    \A ck \in DOMAIN h.rl :
        now < h.rl[ck].end => CounterInt(cache, rdb, now, ck) = h.rl[ck].done

-----------------------------------------------------------------------------
(* PermissionService *)

PERMISSIONS_KEY_PREFIX == "permissions"
CACHE_TTL_SECONDS == 300

(* _get_cache_key *)
permissions_key(user_id) == PERMISSIONS_KEY_PREFIX \o ":" \o user_id

(* list(permissions): the elements of the set in some order *)
list_of(S) ==
    {s \in [1..Cardinality(S) -> S] : {s[i] : i \in 1..Cardinality(S)} = S}
(* set(cached_permissions) *)
set_of(lst) == {lst.v[i] : i \in DOMAIN lst.v}

(* roles and role claims change in the database *)
DbChange(u, perms) ==
    /\ perms # repo[u]
    /\ repo' = [repo EXCEPT ![u] = perms]
    /\ UNCHANGED <<backend, now, cache, cleanup_task, tasks, lock, rdb, pc, l, sv>>

(* get_user_permissions(user_id): await self._cache.get(cache_key) *)
GetUserPermissions(p, u) ==
    /\ pc[p] = "idle"
    /\ sv' = [sv EXCEPT ![p] =
                [NoService EXCEPT !.op = "get_user_permissions", !.user = u,
                                  !.cache_key = permissions_key(u)]]
    /\ Call(p, "get", permissions_key(u), PyNone, None, 0, None, "gup_got")
    /\ UNCHANGED <<backend, now, cache, cleanup_task, tasks, lock, rdb, repo>>

(* the hit test as truthiness: an empty cached list counts as a miss *)
is_cache_hit_truthy(cached_permissions) ==
    /\ cached_permissions # PyNone
    /\ cached_permissions.t = "list" => cached_permissions.v # << >>

(* if cached_permissions is not None *)
is_cache_hit(cached_permissions) == cached_permissions # PyNone

(* a hit returns set(cached_permissions); a miss goes to the repository;   *)
(* an exception of the cache get is not caught                             *)
GupGot(p) ==
    /\ pc[p] = "gup_got"
    /\ IF is_cache_hit(l[p].res)
       THEN /\ pc' = [pc EXCEPT ![p] = "gup_return"]
            /\ sv' = [sv EXCEPT ![p].res = IF IsExc(l[p].res) THEN l[p].res
                                           ELSE PySet(set_of(l[p].res))]
            /\ l' = [l EXCEPT ![p] = NoFrame]
       ELSE /\ pc' = [pc EXCEPT ![p] = "gup_query"]
            /\ UNCHANGED <<sv, l>>
    /\ UNCHANGED <<backend, now, cache, cleanup_task, tasks, lock, rdb, repo>>

(* the repository query returns; await self._cache.set(cache_key,          *)
(* list(permissions), sliding_expiration=CACHE_TTL_SECONDS)                *)
GupQuery(p) ==
    /\ pc[p] = "gup_query"
    /\ sv' = [sv EXCEPT ![p].perms = repo[sv[p].user]]
    /\ \E lst \in list_of(repo[sv[p].user]) :
          Call(p, "set", sv[p].cache_key, PyList(lst), CACHE_TTL_SECONDS, 0, None,
               "gup_set")
    /\ UNCHANGED <<backend, now, cache, cleanup_task, tasks, lock, rdb, repo>>

(* return permissions; an exception of the cache set is not caught *)
GupSet(p) ==
    /\ pc[p] = "gup_set"
    /\ pc' = [pc EXCEPT ![p] = "gup_return"]
    /\ sv' = [sv EXCEPT ![p].res = IF IsExc(l[p].res) THEN l[p].res
                                   ELSE PySet(sv[p].perms)]
    /\ l' = [l EXCEPT ![p] = NoFrame]
    /\ UNCHANGED <<backend, now, cache, cleanup_task, tasks, lock, rdb, repo>>

(* the permission set goes to the caller *)
GupReturn(p) ==
    /\ pc[p] = "gup_return"
    /\ pc' = [pc EXCEPT ![p] = "idle"]
    /\ sv' = [sv EXCEPT ![p] = NoService]
    /\ UNCHANGED <<backend, now, cache, cleanup_task, tasks, lock, rdb, l, repo>>

(* invalidate_user_permissions_cache(user_id): await self._cache.remove *)
InvalidateUserPermissionsCache(p, u) ==
    /\ pc[p] = "idle"
    /\ sv' = [sv EXCEPT ![p] =
                [NoService EXCEPT !.op = "invalidate_user_permissions_cache",
                                  !.user = u, !.cache_key = permissions_key(u)]]
    /\ Call(p, "remove", permissions_key(u), PyNone, None, 0, None, "inv_done")
    /\ UNCHANGED <<backend, now, cache, cleanup_task, tasks, lock, rdb, repo>>

InvDone(p) ==
    /\ pc[p] = "inv_done"
    /\ pc' = [pc EXCEPT ![p] = "idle"]
    /\ l' = [l EXCEPT ![p] = NoFrame]
    /\ sv' = [sv EXCEPT ![p] = NoService]
    /\ UNCHANGED <<backend, now, cache, cleanup_task, tasks, lock, rdb, repo>>

-----------------------------------------------------------------------------
(* Observation of the permission cache *)

(* inv[u]: the last invalidation of u has removed ("removed") or not found *)
(* ("absent") the entry and no set has written u's key since               *)
InvNext(p, u) ==
    IF pc[p] = "remove" /\ l[p].key = permissions_key(u)
    THEN IF l'[p].res = PyBool(TRUE) THEN "removed" ELSE "absent"
    ELSE IF pc[p] = "set" /\ l[p].key = permissions_key(u) THEN ""
    ELSE h.inv[u]

GupNext(p) ==
    IF pc[p] = "gup_return" THEN NoGup
    ELSE IF pc[p] = "get" THEN [h.gup[p] EXCEPT !.after_inv = h.inv[sv[p].user]]
    ELSE IF pc[p] = "gup_query"
    THEN [h.gup[p] EXCEPT !.queried = TRUE, !.found = repo[sv[p].user]]
    ELSE h.gup[p]

ObservePerm(p) ==
    h' = [h EXCEPT !.ops = IF pc[p] = "idle" THEN h.ops + 1 ELSE h.ops,
                   !.inv = [u \in Users |-> InvNext(p, u)],
                   !.gup[p] = GupNext(p)]

(* the clock is looked at a second after one TTL has passed: what was      *)
(* written before and not touched since has expired on both backends       *)
PermSteps == {CACHE_TTL_SECONDS + 1}

NextPerm ==
    \/ \E u \in Users, perms \in SUBSET Permissions :
          DbChange(u, perms) /\ UNCHANGED <<h, rq>>
    \/ \E p \in Procs, u \in Users :
          h.ops < PermMaxOps /\ GetUserPermissions(p, u) /\ ObservePerm(p) /\ UNCHANGED rq
    \/ \E p \in Procs, u \in Users :
          h.ops < PermMaxOps /\ InvalidateUserPermissionsCache(p, u) /\ ObservePerm(p) /\ UNCHANGED rq
    \/ \E p \in Procs : GupGot(p) /\ ObservePerm(p) /\ UNCHANGED rq
    \/ \E p \in Procs : GupQuery(p) /\ ObservePerm(p) /\ UNCHANGED rq
    \/ \E p \in Procs : GupSet(p) /\ ObservePerm(p) /\ UNCHANGED rq
    \/ \E p \in Procs : GupReturn(p) /\ ObservePerm(p) /\ UNCHANGED rq
    \/ \E p \in Procs : InvDone(p) /\ ObservePerm(p) /\ UNCHANGED rq
    \/ \E p \in Procs : MemGet(p) /\ ObservePerm(p) /\ UNCHANGED rq
    \/ \E p \in Procs : MemSet(p) /\ ObservePerm(p) /\ UNCHANGED rq
    \/ \E p \in Procs : MemRemove(p) /\ ObservePerm(p) /\ UNCHANGED rq
    \/ CleanupExpired /\ UNCHANGED <<h, rq>>
    \/ \E p \in Procs : RedisGet(p) /\ ObservePerm(p) /\ UNCHANGED rq
    \/ \E p \in Procs : RedisGetMeta(p) /\ ObservePerm(p) /\ UNCHANGED rq
    \/ \E p \in Procs : RedisGetExpireKey(p) /\ ObservePerm(p) /\ UNCHANGED rq
    \/ \E p \in Procs : RedisGetExpireMeta(p) /\ ObservePerm(p) /\ UNCHANGED rq
    \/ \E p \in Procs : RedisSet(p) /\ ObservePerm(p) /\ UNCHANGED rq
    \/ \E p \in Procs : RedisSetMeta(p) /\ ObservePerm(p) /\ UNCHANGED rq
    \/ \E p \in Procs : RedisRemove(p) /\ ObservePerm(p) /\ UNCHANGED rq
    \/ \E d \in PermSteps : Advance(d, PermMaxTime) /\ UNCHANGED <<h, rq>>

SpecPerm == Init /\ [][NextPerm]_vars

(* p is in a get_user_permissions whose cache read came after an           *)
(* invalidation of its user with no write of the user's key in between     *)
AfterInvalidate(p) ==
    /\ sv[p].op = "get_user_permissions"
    /\ pc[p] # "get"
    /\ h.gup[p].after_inv # ""

(* C10: a get_user_permissions(u) that follows invalidate_user_permissions *)
(* _cache(u) misses the cache whatever the cache held before, queries the  *)
(* repository and returns the permission set the query found.              *)
C10_InvalidateThenGet ==
    \A p \in Procs :
        AfterInvalidate(p) =>
            /\ pc[p] \in {"gup_got", "gup_query", "set", "set_meta", "gup_set",
                         "gup_return"}
            /\ pc[p] = "gup_got" => l[p].res = PyNone
            /\ pc[p] \in {"set", "set_meta", "gup_set", "gup_return"} => h.gup[p].queried
            /\ pc[p] = "gup_return" => sv[p].res = PySet(h.gup[p].found)

(* a get that followed an invalidation which removed a cached entry has    *)
(* returned a non-empty set from the repository                            *)
C10_Witness ==
    \E p \in Procs :
        /\ AfterInvalidate(p)
        /\ pc[p] = "gup_return"
        /\ h.gup[p].after_inv = "removed"
        /\ h.gup[p].queried
        /\ sv[p].res = PySet(h.gup[p].found)
        /\ h.gup[p].found # {}

-----------------------------------------------------------------------------
(* UserService, RoleService and a failing cache backend *)

(* a Redis command fails (the server cannot be reached): the cache method  *)
(* catches no connection error, so the error goes to its caller            *)
RedisUnavailable(p) ==
    /\ backend = "redis" /\ pc[p] \in CacheLabels
    /\ Return(p, PyExc("ConnectionError"))
    /\ UNCHANGED <<backend, now, cache, cleanup_task, tasks, lock, rdb, sv, repo>>

(* the permission sets a user can get from its roles *)
PermSets == SUBSET Permissions

(* UserService.update(user_id, request) with role_ids: the rows are written *)
(* and committed in one session                                             *)
UserUpdate(p, u, perms) ==
    /\ pc[p] = "idle"
    /\ pc' = [pc EXCEPT ![p] = "uu_commit"]
    /\ sv' = [sv EXCEPT ![p] = [NoService EXCEPT !.op = "user_update", !.user = u,
                                                 !.perms = perms,
                                                 !.cache_key = permissions_key(u)]]
    /\ UNCHANGED <<backend, now, cache, cleanup_task, tasks, lock, rdb, l, repo>>

(* await session.commit(); then invalidate_user_permissions_cache(user_id) *)
UuCommit(p) ==
    /\ pc[p] = "uu_commit"
    /\ repo' = [repo EXCEPT ![sv[p].user] = sv[p].perms]
    /\ Call(p, "remove", sv[p].cache_key, PyNone, None, 0, None, "uu_invalidated")
    /\ UNCHANGED <<backend, now, cache, cleanup_task, tasks, lock, rdb, sv>>

(* try: ... except Exception: pass; return self._to_response(updated_user) *)
UuInvalidated(p) ==
    /\ pc[p] = "uu_invalidated"
    /\ pc' = [pc EXCEPT ![p] = "uu_return"]
    /\ sv' = [sv EXCEPT ![p].res = PyStr("UserResponse")]
    /\ UNCHANGED <<backend, now, cache, cleanup_task, tasks, lock, rdb, l, repo>>

(* UserService.delete(user_id): the user and its role rows are deleted; no *)
(* cache call follows                                                      *)
UserDelete(p, u) ==
    /\ pc[p] = "idle"
    /\ pc' = [pc EXCEPT ![p] = "ud_delete"]
    /\ sv' = [sv EXCEPT ![p] = [NoService EXCEPT !.op = "user_delete", !.user = u,
                                                 !.cache_key = permissions_key(u)]]
    /\ UNCHANGED <<backend, now, cache, cleanup_task, tasks, lock, rdb, l, repo>>

UdDelete(p) ==
    /\ pc[p] = "ud_delete"
    /\ repo' = [repo EXCEPT ![sv[p].user] = {}]
    /\ pc' = [pc EXCEPT ![p] = "ud_return"]
    /\ UNCHANGED <<backend, now, cache, cleanup_task, tasks, lock, rdb, l, sv>>

(* the users that hold the role whose claims are updated *)
RoleUsers == Users

(* RoleService.update(role_id, request) with claims: the claims are synced *)
(* and committed; no cache call follows                                    *)
RoleUpdate(p, claims) ==
    /\ pc[p] = "idle"
    /\ claims # {}
    /\ pc' = [pc EXCEPT ![p] = "ru_commit"]
    /\ sv' = [sv EXCEPT ![p] = [NoService EXCEPT !.op = "role_update",
                                                 !.perms = claims]]
    /\ UNCHANGED <<backend, now, cache, cleanup_task, tasks, lock, rdb, l, repo>>

RuCommit(p) ==
    /\ pc[p] = "ru_commit"
    /\ repo' = [u \in Users |-> IF u \in RoleUsers THEN sv[p].perms ELSE repo[u]]
    /\ pc' = [pc EXCEPT ![p] = "ru_return"]
    /\ UNCHANGED <<backend, now, cache, cleanup_task, tasks, lock, rdb, l, sv>>

(* update / delete return to the endpoint *)
ServiceReturn(p) ==
    /\ pc[p] \in {"uu_return", "ud_return", "ru_return"}
    /\ pc' = [pc EXCEPT ![p] = "idle"]
    /\ sv' = [sv EXCEPT ![p] = NoService]
    /\ l' = [l EXCEPT ![p] = NoFrame]
    /\ UNCHANGED <<backend, now, cache, cleanup_task, tasks, lock, rdb, repo>>

-----------------------------------------------------------------------------
(* Observation of role changes, invalidations and permission reads. P is   *)
(* the set of processes that take the step (empty for a change made        *)
(* directly in the store).                                                 *)

Changed(u) == repo'[u] # repo[u]

(* the step calls, or runs without error, a cache remove of u's key *)
RemoveCalled(P, u) ==
    \E p \in P : pc[p] # "remove" /\ pc'[p] = "remove"
                 /\ l'[p].key = permissions_key(u)
RemoveDone(P, u) ==
    \E p \in P : pc[p] = "remove" /\ l[p].key = permissions_key(u)
                 /\ ~IsExc(l'[p].res)
(* the step writes the data key of u *)
SetDone(p, u) ==
    /\ pc[p] = "set" /\ l[p].key = permissions_key(u)
    /\ ~(pc'[p] = l[p].cont /\ IsExc(l'[p].res))

ChgNext(P, u) ==
    IF Changed(u)
    THEN [at |-> now, old |-> repo[u],
          inv |-> IF RemoveCalled(P, u) THEN "started" ELSE "none",
          late |-> FALSE, by |-> IF P = {} THEN 0 ELSE CHOOSE p \in P : TRUE]
    ELSE IF h.chg[u].at = None THEN h.chg[u]
    ELSE IF \E p \in P : SetDone(p, u) /\ h.rg[p].stale
    THEN [h.chg[u] EXCEPT !.late = TRUE]
    ELSE IF RemoveDone(P, u) THEN [h.chg[u] EXCEPT !.inv = "returned"]
    ELSE IF RemoveCalled(P, u) /\ h.chg[u].inv = "none"
    THEN [h.chg[u] EXCEPT !.inv = "started"]
    ELSE h.chg[u]

OldEntryNext(P, u) ==
    IF Changed(u) THEN TRUE
    ELSE IF \E p \in P : SetDone(p, u) THEN \E p \in P : h.rg[p].stale
    ELSE h.old_entry[u]

RgNext(P, q) ==
    IF q \in P /\ pc[q] = "idle" /\ pc'[q] = "get"
    THEN [start |-> now, after_inv |-> h.chg[sv'[q].user].inv = "returned",
          queried |-> FALSE, stale |-> FALSE, raised |-> FALSE]
    ELSE IF q \in P /\ pc[q] = "gup_return" THEN NoRg
    ELSE IF q \in P /\ pc[q] \in CacheLabels /\ pc'[q] = l[q].cont /\ IsExc(l'[q].res)
    THEN [h.rg[q] EXCEPT !.raised = TRUE]
    ELSE IF q \in P /\ pc[q] = "gup_query" THEN [h.rg[q] EXCEPT !.queried = TRUE]
    ELSE IF sv[q].op = "get_user_permissions" /\ Changed(sv[q].user)
    THEN [h.rg[q] EXCEPT !.after_inv = FALSE,
                         !.stale = h.rg[q].stale \/ h.rg[q].queried]
    ELSE h.rg[q]

ObserveRbac(P) ==
    h' = [h EXCEPT !.ops = IF \E p \in P : pc[p] = "idle" THEN h.ops + 1 ELSE h.ops,
                   !.chg = [u \in Users |-> ChgNext(P, u)],
                   !.old_entry = [u \in Users |-> OldEntryNext(P, u)],
                   !.rg = [q \in Procs |-> RgNext(P, q)]]

NextRbac ==
    \/ \E u \in Users, perms \in PermSets : DbChange(u, perms) /\ ObserveRbac({}) /\ UNCHANGED rq
    \/ \E p \in Procs, u \in Users :
          h.ops < RbacMaxOps /\ GetUserPermissions(p, u) /\ ObserveRbac({p}) /\ UNCHANGED rq
    \/ \E p \in Procs, u \in Users, perms \in PermSets :
          h.ops < RbacMaxOps /\ UserUpdate(p, u, perms) /\ ObserveRbac({p}) /\ UNCHANGED rq
    \/ \E p \in Procs, u \in Users :
          h.ops < RbacMaxOps /\ UserDelete(p, u) /\ ObserveRbac({p}) /\ UNCHANGED rq
    \/ \E p \in Procs, claims \in PermSets :
          h.ops < RbacMaxOps /\ RoleUpdate(p, claims) /\ ObserveRbac({p}) /\ UNCHANGED rq
    \/ \E p \in Procs : GupGot(p) /\ ObserveRbac({p}) /\ UNCHANGED rq
    \/ \E p \in Procs : GupQuery(p) /\ ObserveRbac({p}) /\ UNCHANGED rq
    \/ \E p \in Procs : GupSet(p) /\ ObserveRbac({p}) /\ UNCHANGED rq
    \/ \E p \in Procs : GupReturn(p) /\ ObserveRbac({p}) /\ UNCHANGED rq
    \/ \E p \in Procs : UuCommit(p) /\ ObserveRbac({p}) /\ UNCHANGED rq
    \/ \E p \in Procs : UuInvalidated(p) /\ ObserveRbac({p}) /\ UNCHANGED rq
    \/ \E p \in Procs : UdDelete(p) /\ ObserveRbac({p}) /\ UNCHANGED rq
    \/ \E p \in Procs : RuCommit(p) /\ ObserveRbac({p}) /\ UNCHANGED rq
    \/ \E p \in Procs : ServiceReturn(p) /\ ObserveRbac({p}) /\ UNCHANGED rq
    \/ \E p \in Procs : MemGet(p) /\ ObserveRbac({p}) /\ UNCHANGED rq
    \/ \E p \in Procs : MemSet(p) /\ ObserveRbac({p}) /\ UNCHANGED rq
    \/ \E p \in Procs : MemRemove(p) /\ ObserveRbac({p}) /\ UNCHANGED rq
    \/ \E p \in Procs : RedisGet(p) /\ ObserveRbac({p}) /\ UNCHANGED rq
    \/ \E p \in Procs : RedisGetMeta(p) /\ ObserveRbac({p}) /\ UNCHANGED rq
    \/ \E p \in Procs : RedisGetExpireKey(p) /\ ObserveRbac({p}) /\ UNCHANGED rq
    \/ \E p \in Procs : RedisGetExpireMeta(p) /\ ObserveRbac({p}) /\ UNCHANGED rq
    \/ \E p \in Procs : RedisSet(p) /\ ObserveRbac({p}) /\ UNCHANGED rq
    \/ \E p \in Procs : RedisSetMeta(p) /\ ObserveRbac({p}) /\ UNCHANGED rq
    \/ \E p \in Procs : RedisRemove(p) /\ ObserveRbac({p}) /\ UNCHANGED rq
    \/ \E p \in Procs : RedisUnavailable(p) /\ ObserveRbac({p}) /\ UNCHANGED rq

SpecRbac == Init /\ [][NextRbac]_vars

(* Reads of the permission cache over time while the store changes and no  *)
(* invalidation is made: the clock is looked at every CACHE_TTL_SECONDS.   *)
NextStale ==
    \/ \E u \in Users, perms \in PermSets :
          DbChange(u, perms) /\ ObserveRbac({}) /\ UNCHANGED rq
    \/ \E p \in Procs, u \in Users :
          h.ops < StaleMaxOps /\ GetUserPermissions(p, u) /\ ObserveRbac({p})
          /\ UNCHANGED rq
    \/ \E p \in Procs : GupGot(p) /\ ObserveRbac({p}) /\ UNCHANGED rq
    \/ \E p \in Procs : GupQuery(p) /\ ObserveRbac({p}) /\ UNCHANGED rq
    \/ \E p \in Procs : GupSet(p) /\ ObserveRbac({p}) /\ UNCHANGED rq
    \/ \E p \in Procs : GupReturn(p) /\ ObserveRbac({p}) /\ UNCHANGED rq
    \/ \E p \in Procs : MemGet(p) /\ ObserveRbac({p}) /\ UNCHANGED rq
    \/ \E p \in Procs : MemSet(p) /\ ObserveRbac({p}) /\ UNCHANGED rq
    \/ CleanupExpired /\ UNCHANGED <<h, rq>>
    \/ \E p \in Procs : RedisGet(p) /\ ObserveRbac({p}) /\ UNCHANGED rq
    \/ \E p \in Procs : RedisGetMeta(p) /\ ObserveRbac({p}) /\ UNCHANGED rq
    \/ \E p \in Procs : RedisGetExpireKey(p) /\ ObserveRbac({p}) /\ UNCHANGED rq
    \/ \E p \in Procs : RedisGetExpireMeta(p) /\ ObserveRbac({p}) /\ UNCHANGED rq
    \/ \E p \in Procs : RedisSet(p) /\ ObserveRbac({p}) /\ UNCHANGED rq
    \/ \E p \in Procs : RedisSetMeta(p) /\ ObserveRbac({p}) /\ UNCHANGED rq
    \/ Advance(CACHE_TTL_SECONDS, StaleMaxTime) /\ UNCHANGED <<h, rq>>

SpecStale == Init /\ [][NextStale]_vars

(* a get_user_permissions of p is handing over its result *)
GupReturned(p) == pc[p] = "gup_return" /\ sv[p].op = "get_user_permissions"

(* C11: with no invalidation since the last change of u's permissions, and *)
(* no repository read from before the change written to the cache after    *)
(* it, a get_user_permissions(u) started more than CACHE_TTL_SECONDS after  *)
(* the change returns the new set.                                          *)
C11_StalenessBoundedByTTL ==
    \A p \in Procs :
        /\ GupReturned(p)
        /\ ~IsExc(sv[p].res)
        /\ h.chg[sv[p].user].at # None
        /\ h.chg[sv[p].user].inv = "none"
        /\ ~h.chg[sv[p].user].late
        /\ h.rg[p].start > h.chg[sv[p].user].at + CACHE_TTL_SECONDS
        => sv[p].res = PySet(repo[sv[p].user])

(* C12: once the store has been updated and the invalidation of u has      *)
(* returned, the cache does not hold the pre-update set for u, and no      *)
(* get_user_permissions(u) started after that return hands over the        *)
(* pre-update set.                                                          *)
C12_NoStaleAfterInvalidation ==
    \A u \in Users :
        h.chg[u].inv = "returned" =>
            /\ LET e == Counter(cache, rdb, now, permissions_key(u))
               IN  e # PyNone => set_of(e) # h.chg[u].old
            /\ \A p \in Procs :
                  /\ GupReturned(p) /\ sv[p].user = u
                  /\ h.rg[p].after_inv
                  => sv[p].res # PySet(h.chg[u].old)

(* the cache holds an entry for u that was loaded from the repository      *)
(* before the last change of u's permissions                                *)
HoldsOldEntry(u) ==
    /\ Counter(cache, rdb, now, permissions_key(u)) # PyNone
    /\ h.old_entry[u]

(* C13: when UserService.update with role_ids or UserService.delete has    *)
(* changed the permissions of a user and returns, the cache holds no       *)
(* 'permissions:{userId}' entry loaded before the change.                  *)
C13_UserChangeInvalidates ==
    \A p \in Procs :
        /\ pc[p] \in {"uu_return", "ud_return"}
        /\ h.chg[sv[p].user].by = p
        => ~HoldsOldEntry(sv[p].user)

(* C14: when RoleService.update with claims has changed the role's claim   *)
(* set and returns, no user holding the role has a cached permission set   *)
(* loaded before the change.                                                *)
C14_RoleChangeInvalidates ==
    \A p \in Procs :
        pc[p] = "ru_return" =>
            \A u \in RoleUsers : h.chg[u].by = p => ~HoldsOldEntry(u)

(* C16: a get_user_permissions(u) whose cache get or cache set raised      *)
(* still returns a permission set read from the repository.                *)
C16_DegradeGracefully ==
    \A p \in Procs :
        GupReturned(p) /\ h.rg[p].raised =>
            /\ sv[p].res \in {PySet(S) : S \in PermSets}
            /\ h.rg[p].queried

-----------------------------------------------------------------------------
(* The HTTP pipeline: CustomExceptionMiddleware (added last, so outermost), *)
(* CORS, RateLimitMiddleware, then the router with the route's             *)
(* dependencies in the order they are listed, then the endpoint.           *)

HttpMaxOps == 2
HttpMaxTime == 1
HttpRouteRequests == 1
HttpRouteWindow == 2
MaxRequired == 2

(* PermissionService.has_permission: permission in permissions *)
has_permission(P, permission) == permission \in P

(* has_any_permission with the subset test in place of the intersection *)
has_any_permission_as_all(P, permissions) ==
    set_of(PyList(permissions)) \subseteq P
(* has_any_permission: bool(user_permissions & set(permissions)) *)
has_any_permission(P, permissions) ==
    (P \cap set_of(PyList(permissions))) # {}

(* has_all_permissions: set(permissions).issubset(user_permissions) *)
has_all_permissions(P, permissions) ==
    set_of(PyList(permissions)) \subseteq P

(* PermissionChecker.__call__: the predicate chosen by require_all and by  *)
(* the number of required permissions                                      *)
checker_has_permission(P, required_permissions, require_all) ==
    IF require_all THEN has_all_permissions(P, required_permissions)
    ELSE IF Len(required_permissions) = 1
    THEN has_permission(P, required_permissions[1])
    ELSE has_any_permission(P, required_permissions)

(* the routes: POST /api/v1/auth/login, POST /api/v1/users,                *)
(* DELETE /api/v1/users/{id} and GET /health                               *)
Routes == {"login", "users_create", "users_delete", "health"}
UserRoutes == {"users_create", "users_delete"}
route_path(r) ==
    CASE r = "login" -> "/api/v1/auth/login"
      [] r = "users_create" -> "/api/v1/users"
      [] r = "users_delete" -> "/api/v1/users/{id}"
      [] OTHER -> "/health"
(* settings.RATE_LIMIT_EXEMPT_PATHS holds "/health" *)
is_exempt_path(path) == path = "/health"
(* the user router depends on JWTBearer() *)
requires_jwt(r) == r \in UserRoutes
(* require_permission(AppPermissions.USERS_CREATE / USERS_DELETE) *)
required_permissions(r) ==
    CASE r = "users_create" -> <<"permission.users.create">>
      [] r = "users_delete" -> <<"permission.users.delete">>
      [] OTHER -> << >>
(* RateLimit(requests, window, key_prefix="users_create" / "users_delete") *)
key_prefix(r) == r
(* status_code of the route decorator; 200 when it gives none *)
success_status(r) ==
    CASE r = "users_create" -> 201
      [] r = "users_delete" -> 204
      [] OTHER -> 200

(* exception_utils: the status_code each exception class sets *)
status_code(e) ==
    CASE e = "BadRequestException" -> 400
      [] e = "NotFoundException" -> 404
      [] e = "UnauthorizedException" -> 401
      [] e = "ForbiddenException" -> 403
      [] e = "ConflictException" -> 409
      [] e = "TooManyRequestsException" -> 429

(* a dispatch whose every except clause answers 500 *)
exception_response_always_500(e) == [status |-> 500, headers |-> {}]
(* CustomExceptionMiddleware.dispatch: the response built for an exception *)
(* that reaches it                                                         *)
exception_response(e) ==
    IF e.v \in {"BadRequestException", "NotFoundException", "UnauthorizedException",
                "ForbiddenException", "ConflictException"}
    THEN [status |-> status_code(e.v), headers |-> {}]
    ELSE IF e.v = "TooManyRequestsException"
    THEN [status |-> status_code(e.v), headers |-> {"Retry-After"}]
    ELSE [status |-> 500, headers |-> {}]

(* a dispatch that lets the request in when the check raised *)
mw_dispatch_swallows(result) ==
    IF IsExc(result) THEN "call_next"
    ELSE IF result.is_limited THEN "reject" ELSE "call_next"
(* RateLimitMiddleware.dispatch after check_rate_limit: the exception is   *)
(* not caught, a limited result is rejected, any other goes to call_next   *)
mw_dispatch(result) ==
    IF IsExc(result) THEN "raise"
    ELSE IF result.is_limited THEN "reject" ELSE "call_next"

(* the headers RateLimitMiddleware adds to the response call_next returned *)
rate_limit_headers(mw) ==
    IF mw = PyNone THEN {}
    ELSE {"X-RateLimit-Limit", "X-RateLimit-Remaining", "X-RateLimit-Reset"}

(* a response made inside the router goes out through RateLimitMiddleware *)
Responded(r, status, headers) ==
    [r EXCEPT !.stage = "done", !.status = status,
              !.headers = headers \cup rate_limit_headers(r.mw)]
(* an exception goes up to CustomExceptionMiddleware *)
Raised(r, e) ==
    [r EXCEPT !.stage = "done", !.status = exception_response(e).status,
              !.headers = exception_response(e).headers]

(* a request comes in *)
RequestArrives(p, route, ip, token) ==
    /\ pc[p] = "idle" /\ rq[p].stage = "none"
    /\ rq' = [rq EXCEPT ![p] =
                [NoRequest EXCEPT !.stage = "mw", !.route = route, !.ip = ip,
                                  !.token = token,
                                  !.user = IF token THEN "u1" ELSE "",
                                  !.required = required_permissions(route)]]
    /\ UNCHANGED <<backend, now, cache, cleanup_task, tasks, lock, rdb, pc, l, sv, repo>>

(* RateLimitMiddleware.dispatch: exempt paths go on, the others are        *)
(* checked with check_rate_limit(client_ip)                                *)
MwDispatch(p) ==
    /\ rq[p].stage = "mw"
    /\ IF is_exempt_path(route_path(rq[p].route))
       THEN /\ rq' = [rq EXCEPT ![p].stage = "auth"]
            /\ UNCHANGED <<backend, now, cache, cleanup_task, tasks, lock, rdb, pc, l, sv, repo>>
       ELSE /\ CheckRateLimit(p, rq[p].ip)
            /\ rq' = [rq EXCEPT ![p].stage = "mw_check"]

(* check_rate_limit has returned or raised *)
MwChecked(p) ==
    /\ pc[p] = "rl_return" /\ rq[p].stage = "mw_check"
    /\ pc' = [pc EXCEPT ![p] = "idle"]
    /\ sv' = [sv EXCEPT ![p] = NoService]
    /\ l' = [l EXCEPT ![p] = NoFrame]
    /\ rq' = [rq EXCEPT ![p] =
                CASE mw_dispatch(sv[p].res) = "raise" ->
                        Raised([rq[p] EXCEPT !.cache_error = IsExc(l[p].res)],
                               sv[p].res)
                  [] mw_dispatch(sv[p].res) = "reject" ->
                        [rq[p] EXCEPT !.stage = "done", !.status = 429,
                                      !.headers = {"X-RateLimit-Limit",
                                                   "X-RateLimit-Remaining",
                                                   "X-RateLimit-Reset", "Retry-After"},
                                      !.limited_by = "global",
                                      !.counted = @ \cup {"global"}]
                  [] OTHER ->
                        [rq[p] EXCEPT !.stage = "auth", !.mw = sv[p].res,
                                      !.cache_error = IsExc(l[p].res),
                                      !.counted = IF IsExc(l[p].res) THEN @
                                                  ELSE @ \cup {"global"}]]
    /\ UNCHANGED <<backend, now, cache, cleanup_task, tasks, lock, rdb, repo>>

(* JWTBearer.__call__: UnauthorizedException without a valid bearer token *)
Authenticate(p) ==
    /\ pc[p] = "idle" /\ rq[p].stage = "auth"
    /\ rq' = [rq EXCEPT ![p] =
                IF ~requires_jwt(rq[p].route) THEN [rq[p] EXCEPT !.stage = "handler"]
                ELSE IF ~rq[p].token
                THEN Raised(rq[p], PyExc("UnauthorizedException"))
                ELSE [rq[p] EXCEPT !.stage = "perm"]]
    /\ UNCHANGED <<backend, now, cache, cleanup_task, tasks, lock, rdb, pc, l, sv, repo>>

(* PermissionChecker.__call__: has_permission / has_any_permission /       *)
(* has_all_permissions start with get_user_permissions(user_id)            *)
PermStart(p) ==
    /\ rq[p].stage = "perm"
    /\ GetUserPermissions(p, rq[p].user)
    /\ rq' = [rq EXCEPT ![p].stage = "perm_check"]

(* the permission set has come back: the predicate is evaluated and the    *)
(* checker raises HTTPException(403) or returns                            *)
PermChecked(p) ==
    /\ pc[p] = "gup_return" /\ rq[p].stage = "perm_check"
    /\ pc' = [pc EXCEPT ![p] = "idle"]
    /\ sv' = [sv EXCEPT ![p] = NoService]
    /\ rq' = [rq EXCEPT ![p] =
                IF IsExc(sv[p].res) THEN Raised(rq[p], sv[p].res)
                ELSE IF checker_has_permission(sv[p].res.v, rq[p].required,
                                               rq[p].require_all)
                THEN [rq[p] EXCEPT !.stage = "limit", !.granted = PyBool(TRUE),
                                   !.perms = sv[p].res.v]
                ELSE Responded([rq[p] EXCEPT !.granted = PyBool(FALSE),
                                             !.perms = sv[p].res.v], 403, {})]
    /\ UNCHANGED <<backend, now, cache, cleanup_task, tasks, lock, rdb, l, repo>>

(* RateLimit.__call__: check_rate_limit_custom(f"{key_prefix}:{client_ip}") *)
LimitStart(p) ==
    /\ rq[p].stage = "limit"
    /\ CheckRateLimitCustom(p, route_key(key_prefix(rq[p].route), rq[p].ip),
                            HttpRouteRequests, HttpRouteWindow)
    /\ rq' = [rq EXCEPT ![p].stage = "limit_check"]

(* the route check has returned or raised: a limited result raises         *)
(* TooManyRequestsException                                                *)
LimitChecked(p) ==
    /\ pc[p] = "rl_return" /\ rq[p].stage = "limit_check"
    /\ pc' = [pc EXCEPT ![p] = "idle"]
    /\ sv' = [sv EXCEPT ![p] = NoService]
    /\ l' = [l EXCEPT ![p] = NoFrame]
    /\ rq' = [rq EXCEPT ![p] =
                IF IsExc(sv[p].res)
                THEN Raised([rq[p] EXCEPT !.cache_error = IsExc(l[p].res)], sv[p].res)
                ELSE IF sv[p].res.is_limited
                THEN Raised([rq[p] EXCEPT !.limited_by = "route",
                                          !.counted = @ \cup {"route"}],
                            PyExc("TooManyRequestsException"))
                ELSE [rq[p] EXCEPT !.stage = "handler",
                                   !.counted = @ \cup {"route"}]]
    /\ UNCHANGED <<backend, now, cache, cleanup_task, tasks, lock, rdb, repo>>

(* what the endpoint's service operation does *)
HandlerOutcomes ==
    {"ok", "BadRequestException", "NotFoundException", "UnauthorizedException",
     "ConflictException", "RuntimeError"}

(* the endpoint runs its service operation, which returns or raises *)
Handler(p, outcome) ==
    /\ pc[p] = "idle" /\ rq[p].stage = "handler"
    /\ rq[p].route = "health" => outcome = "ok"
    /\ rq' = [rq EXCEPT ![p] =
                IF outcome = "ok"
                THEN Responded([rq[p] EXCEPT !.handler = TRUE, !.outcome = outcome],
                               success_status(rq[p].route), {})
                ELSE Raised([rq[p] EXCEPT !.handler = TRUE, !.outcome = outcome],
                            PyExc(outcome))]
    /\ UNCHANGED <<backend, now, cache, cleanup_task, tasks, lock, rdb, pc, l, sv, repo>>

(* the response is sent *)
Respond(p) ==
    /\ pc[p] = "idle" /\ rq[p].stage = "done"
    /\ rq' = [rq EXCEPT ![p] = NoRequest]
    /\ UNCHANGED <<backend, now, cache, cleanup_task, tasks, lock, rdb, pc, l, sv, repo>>

-----------------------------------------------------------------------------
(* The permission predicates on their own: the checker is entered with any *)
(* permission set P and any list of required permissions.                  *)

HasPermissions == {"permission.users.view", "permission.users.create"}
RequiredLists == UNION {[1..n -> HasPermissions] : n \in 0..MaxRequired}

InitHas ==
    /\ backend \in {"memory", "redis"}
    /\ now = 0
    /\ cache = EmptyMap
    /\ cleanup_task = (IF backend = "memory" THEN 1 ELSE None)
    /\ tasks = (IF backend = "memory" THEN <<"sleeping">> ELSE << >>)
    /\ lock = FALSE
    /\ rdb = EmptyMap
    /\ l = [p \in Procs |-> NoFrame]
    /\ h = H0
    /\ pc = [p \in Procs |-> IF p = 1 THEN "gup_return" ELSE "idle"]
    /\ \E P \in SUBSET HasPermissions, L \in RequiredLists, require_all \in BOOLEAN :
          /\ repo = [u \in Users |-> P]
          /\ sv = [p \in Procs |->
                     IF p = 1
                     THEN [NoService EXCEPT !.op = "get_user_permissions",
                                            !.user = "u1",
                                            !.cache_key = permissions_key("u1"),
                                            !.res = PySet(P)]
                     ELSE NoService]
          /\ rq = [p \in Procs |->
                     IF p = 1
                     THEN [NoRequest EXCEPT !.stage = "perm_check",
                                            !.route = "users_create",
                                            !.ip = "1.2.3.4", !.token = TRUE,
                                            !.user = "u1", !.required = L,
                                            !.require_all = require_all]
                     ELSE NoRequest]

NextHas ==
    \/ \E p \in Procs : PermChecked(p) /\ UNCHANGED h
    \/ \E p \in Procs : Respond(p) /\ UNCHANGED h

SpecHas == InitHas /\ [][NextHas]_vars

(* the checker of p's request has decided *)
Decided(p) == rq[p].granted # PyNone

(* C15: has_permission is membership in P, has_any_permission is true iff  *)
(* some element of L is in P, has_all_permissions iff every element of L   *)
(* is in P (so for the empty list has_any is false and has_all is true),   *)
(* and PermissionChecker grants exactly when the predicate that matches    *)
(* require_all and the length of L is true, and answers 403 otherwise.     *)
C15_OrAndSemantics ==
    \A p \in Procs :
        Decided(p) =>
            LET P == rq[p].perms
                L == rq[p].required
                any == \E i \in DOMAIN L : L[i] \in P
                all == \A i \in DOMAIN L : L[i] \in P
            IN  /\ \A x \in HasPermissions : has_permission(P, x) = (x \in P)
                /\ has_any_permission(P, L) = any
                /\ has_all_permissions(P, L) = all
                /\ L = << >> => ~has_any_permission(P, L) /\ has_all_permissions(P, L)
                /\ rq[p].granted =
                      PyBool(IF rq[p].require_all THEN all
                             ELSE IF Len(L) = 1 THEN L[1] \in P ELSE any)
                /\ rq[p].granted = PyBool(FALSE)
                      <=> (rq[p].stage = "done" /\ rq[p].status = 403)
                /\ rq[p].granted = PyBool(TRUE) <=> rq[p].stage = "limit"

(* the checker has granted a request that needs any of two permissions to  *)
(* a user who holds only one of them                                       *)
C15_Witness ==
    \E p \in Procs :
        /\ rq[p].granted = PyBool(TRUE)
        /\ ~rq[p].require_all
        /\ Len(rq[p].required) = 2
        /\ ~has_all_permissions(rq[p].perms, rq[p].required)

-----------------------------------------------------------------------------
(* Requests through the whole pipeline *)

(* the store holds any assignment of the routes' permissions *)
InitHttp ==
    /\ backend \in {"memory", "redis"}
    /\ now = 0
    /\ cache = EmptyMap
    /\ cleanup_task = (IF backend = "memory" THEN 1 ELSE None)
    /\ tasks = (IF backend = "memory" THEN <<"sleeping">> ELSE << >>)
    /\ lock = FALSE
    /\ rdb = EmptyMap
    /\ pc = [p \in Procs |-> "idle"]
    /\ l = [p \in Procs |-> NoFrame]
    /\ sv = [p \in Procs |-> NoService]
    /\ repo \in [Users -> SUBSET {"permission.users.create", "permission.users.delete"}]
    /\ rq = [p \in Procs |-> NoRequest]
    /\ h = H0

(* Requests are followed one at a time, by process 1: what is checked here *)
(* is the path of a single request through the pipeline (concurrent checks *)
(* and concurrent permission reads are followed in SpecRL and SpecRbac).   *)
HttpProcs == {1}

ObserveHttp(p) ==
    h' = [h EXCEPT !.ops = IF rq[p].stage = "none" THEN h.ops + 1 ELSE h.ops]

(* On the in-process backend the global check raises for every request     *)
(* that is not exempt, so no request gets as far as the permission cache:  *)
(* the get and set of that backend are not steps of this specification.    *)
NextHttp ==
    \/ \E p \in HttpProcs, route \in Routes, ip \in ClientIps, token \in BOOLEAN :
          /\ h.ops < HttpMaxOps
          /\ RequestArrives(p, route, ip, token) /\ ObserveHttp(p)
    \/ \E p \in HttpProcs : MwDispatch(p) /\ ObserveHttp(p)
    \/ \E p \in HttpProcs : RLReadTime(p) /\ ObserveHttp(p) /\ UNCHANGED rq
    \/ \E p \in HttpProcs : MemIncrement(p) /\ ObserveHttp(p) /\ UNCHANGED rq
    \/ \E p \in HttpProcs : RedisIncrement(p) /\ ObserveHttp(p) /\ UNCHANGED rq
    \/ \E p \in HttpProcs : RedisIncrementExpire(p) /\ ObserveHttp(p) /\ UNCHANGED rq
    \/ \E p \in HttpProcs : RLResult(p) /\ ObserveHttp(p) /\ UNCHANGED rq
    \/ \E p \in HttpProcs : MwChecked(p) /\ ObserveHttp(p)
    \/ \E p \in HttpProcs : Authenticate(p) /\ ObserveHttp(p)
    \/ \E p \in HttpProcs : PermStart(p) /\ ObserveHttp(p)
    \/ \E p \in HttpProcs : RedisGet(p) /\ ObserveHttp(p) /\ UNCHANGED rq
    \/ \E p \in HttpProcs : RedisGetMeta(p) /\ ObserveHttp(p) /\ UNCHANGED rq
    \/ \E p \in HttpProcs : RedisGetExpireKey(p) /\ ObserveHttp(p) /\ UNCHANGED rq
    \/ \E p \in HttpProcs : RedisGetExpireMeta(p) /\ ObserveHttp(p) /\ UNCHANGED rq
    \/ \E p \in HttpProcs : GupGot(p) /\ ObserveHttp(p) /\ UNCHANGED rq
    \/ \E p \in HttpProcs : GupQuery(p) /\ ObserveHttp(p) /\ UNCHANGED rq
    \/ \E p \in HttpProcs : RedisSet(p) /\ ObserveHttp(p) /\ UNCHANGED rq
    \/ \E p \in HttpProcs : RedisSetMeta(p) /\ ObserveHttp(p) /\ UNCHANGED rq
    \/ \E p \in HttpProcs : GupSet(p) /\ ObserveHttp(p) /\ UNCHANGED rq
    \/ \E p \in HttpProcs : PermChecked(p) /\ ObserveHttp(p)
    \/ \E p \in HttpProcs : LimitStart(p) /\ ObserveHttp(p)
    \/ \E p \in HttpProcs : LimitChecked(p) /\ ObserveHttp(p)
    \/ \E p \in HttpProcs, outcome \in HandlerOutcomes :
          Handler(p, outcome) /\ ObserveHttp(p)
    \/ \E p \in HttpProcs : Respond(p) /\ ObserveHttp(p)
    \/ \E p \in HttpProcs : RedisUnavailable(p) /\ ObserveHttp(p) /\ UNCHANGED rq
    \/ Tick(HttpMaxTime) /\ UNCHANGED <<h, rq>>

SpecHttp == InitHttp /\ [][NextHttp]_vars

(* the rate-limit checks that apply to a route: the global one unless the  *)
(* path is exempt, and the route's own RateLimit dependency                *)
applicable_limits(r) ==
    (IF is_exempt_path(route_path(r)) THEN {} ELSE {"global"})
    \cup (IF r \in UserRoutes THEN {"route"} ELSE {})

(* the request of p has its response *)
Done(p) == rq[p].stage = "done"

(* C17: when the increment of a rate-limit check raises, the check hands   *)
(* over the exception and no RateLimitResult, and the request ends as a    *)
(* 500 response without its business handler having run.                   *)
C17_BackendErrorsPropagate ==
    \A p \in Procs :
        /\ Checked(p) /\ IsExc(l[p].res) =>
              IsExc(sv[p].res) /\ sv[p].res.t # "RateLimitResult"
        /\ rq[p].cache_error =>
              Done(p) /\ ~rq[p].handler /\ rq[p].status = 500

(* on Redis a request has ended as a 500 because the increment of its      *)
(* rate-limit check raised                                                 *)
C17_Witness ==
    \E p \in Procs :
        /\ backend = "redis"
        /\ Done(p) /\ rq[p].cache_error
        /\ rq[p].status = 500 /\ ~rq[p].handler

(* C18: a request rejected because a rate-limit check, global or per       *)
(* route, returned is_limited gets status 429 with the headers             *)
(* X-RateLimit-Limit, X-RateLimit-Remaining, X-RateLimit-Reset and         *)
(* Retry-After, and its business handler has not run.                      *)
C18_LimitedResponse ==
    \A p \in Procs :
        Done(p) /\ rq[p].limited_by # "" =>
            /\ rq[p].status = 429
            /\ {"X-RateLimit-Limit", "X-RateLimit-Remaining", "X-RateLimit-Reset",
                "Retry-After"} \subseteq rq[p].headers
            /\ ~rq[p].handler

(* C19: every rate-limit check that applies to the route has counted the   *)
(* request before its permission check starts, the permission check has    *)
(* passed before the handler runs, the handler runs only when no check has *)
(* limited the request, and a request answered 403 has been counted by     *)
(* every rate limit of its route.                                          *)
C19_RequestOrdering ==
    \A p \in Procs :
        /\ rq[p].stage = "perm_check" \/ Decided(p) =>
              applicable_limits(rq[p].route) \subseteq rq[p].counted
        /\ rq[p].handler =>
              /\ rq[p].limited_by = ""
              /\ rq[p].required # << >> => rq[p].granted = PyBool(TRUE)
        /\ Done(p) /\ rq[p].status = 403 =>
              applicable_limits(rq[p].route) \subseteq rq[p].counted

(* the operation of an auth or user endpoint has run for p's request *)
OperationRan(p) ==
    Done(p) /\ rq[p].handler /\ rq[p].route \in {"login"} \cup UserRoutes

(* C20 as stated: the four domain exceptions give 404, 401, 400 and 409,   *)
(* and a normal return gives 200.                                          *)
C20_DomainErrorStatus ==
    \A p \in Procs :
        OperationRan(p) =>
            /\ rq[p].outcome = "NotFoundException" => rq[p].status = 404
            /\ rq[p].outcome = "UnauthorizedException" => rq[p].status = 401
            /\ rq[p].outcome = "BadRequestException" => rq[p].status = 400
            /\ rq[p].outcome = "ConflictException" => rq[p].status = 409
            /\ rq[p].outcome = "ok" => rq[p].status = 200

(* C20, amended: the four domain exceptions give 404, 401, 400 and 409,    *)
(* and a normal return gives the status the route declares: 201 for the    *)
(* user create route, 204 for the user delete route, 200 for login.        *)
C20_DomainErrorStatusDeclared ==
    \A p \in Procs :
        OperationRan(p) =>
            /\ rq[p].outcome = "NotFoundException" => rq[p].status = 404
            /\ rq[p].outcome = "UnauthorizedException" => rq[p].status = 401
            /\ rq[p].outcome = "BadRequestException" => rq[p].status = 400
            /\ rq[p].outcome = "ConflictException" => rq[p].status = 409
            /\ rq[p].outcome = "ok" =>
                  rq[p].status = CASE rq[p].route = "users_create" -> 201
                                   [] rq[p].route = "users_delete" -> 204
                                   [] OTHER -> 200

(* the create operation has raised ConflictException and the response is   *)
(* 409                                                                     *)
C20_Witness ==
    \E p \in Procs :
        /\ OperationRan(p) /\ rq[p].route = "users_create"
        /\ rq[p].outcome = "ConflictException"
        /\ rq[p].status = 409

-----------------------------------------------------------------------------
(* Entries as the next operation finds them *)

(* the sliding expiration a get or refresh of the key would apply: the     *)
(* entry's own field in the in-process backend, the metadata key in Redis  *)
policy_of(c, db, t, k) ==
    IF backend = "memory"
    THEN c[k].sliding_expiration
    ELSE IF RAlive(db, MetaKey(k), t) /\ db[MetaKey(k)].val.json.t = "int"
         THEN db[MetaKey(k)].val.json.v
         ELSE None

(* the key is present and carries value v with expiration policy s: with a *)
(* policy the key has an expiry, without one it has none                   *)
EntryFrom(c, db, t, k, v, s) ==
    /\ Counter(c, db, t, k) = v
    /\ policy_of(c, db, t, k) = s
    /\ backend = "redis" => ((s = None) <=> (db[k].exp = None))

Present(c, db, t, k) ==
    IF backend = "memory" THEN k \in DOMAIN c /\ ~is_expired(c[k], t)
    ELSE RAlive(db, k, t)

(* the last operation of p was set(k, ...) and has returned *)
SetDoneBy(p, k) == pc[p] = "idle" /\ l[p].op = "set" /\ l[p].key = k

(* C21: set is atomic in both backends: once two sets of a key, whatever   *)
(* ran between their steps, have both completed and nothing else is under  *)
(* way, the stored value and the expiration policy of the key come from    *)
(* the same one of the two calls.                                          *)
C21_SetAtomic ==
    \A k \in CacheKeys :
        ((\A p \in Procs : SetDoneBy(p, k)) /\ Present(cache, rdb, now, k)) =>
            \E p \in Procs : EntryFrom(cache, rdb, now, k, l[p].val, l[p].sliding)

RefreshReturned(p) ==
    pc[p] \in {"refresh", "refresh_meta", "refresh_expire_meta"} /\ pc'[p] = "idle"

(* C22: refresh(key), with no set, remove, clear or increment of the key   *)
(* under way, returns true exactly when the key was present and not        *)
(* expired on arrival; when it returns true for a key set with sliding     *)
(* expiration s the key keeps its value and policy and stays alive until s *)
(* after the refresh arrived; when it returns false no entry is left.      *)
C22_RefreshEffect ==
    [][\A p \in Procs :
          (RefreshReturned(p) /\ h.obs[p].clean /\ h'.obs[p].clean) =>
             /\ pc[p] = "refresh" =>
                   (l'[p].res = PyBool(Present(cache, rdb, now, l[p].key)))
             /\ (l'[p].res = PyBool(TRUE) /\ h.acc[l[p].key].on
                 /\ now' <= l'[p].t0 + h.acc[l[p].key].s) =>
                   /\ LiveUntil(cache', rdb', now', l[p].key,
                                l'[p].t0 + h.acc[l[p].key].s)
                   /\ EntryFrom(cache', rdb', now', l[p].key,
                                h.acc[l[p].key].v, h.acc[l[p].key].s)
             /\ l'[p].res = PyBool(FALSE) =>
                   Absent(cache', rdb', now', l[p].key)]_vars

-----------------------------------------------------------------------------
(* Lifecycle of the sweep task of the in-process backend.  A task is       *)
(* "sleeping" (at its await of asyncio.sleep, or created and not yet run), *)
(* "cancelling" (cancel() has been called, the CancelledError is delivered *)
(* when the loop next runs the task) or "cancelled" (done).  start returns *)
(* without suspending; stop suspends at `await self._cleanup_task` unless  *)
(* the task is already done.                                               *)

(* asyncio.create_task(self._cleanup_loop()) *)
create_task(ts) == Append(ts, "sleeping")

(* Task.cancel() *)
task_cancel(ts, t) == IF ts[t] = "sleeping" THEN [ts EXCEPT ![t] = "cancelling"] ELSE ts

(* Task.done() *)
task_done(ts, t) == ts[t] = "cancelled"

(* the container has not finished shutting the resource down *)
Serving == \A q \in Procs : pc[q] # "closed"

StartCleanupTask(p) ==
    /\ backend = "memory" /\ pc[p] = "idle" /\ Serving
    /\ IF cleanup_task = None
       THEN /\ tasks' = create_task(tasks)
            /\ cleanup_task' = Len(tasks) + 1
       ELSE UNCHANGED <<tasks, cleanup_task>>
    /\ sv' = [sv EXCEPT ![p] = [NoService EXCEPT !.op = "start_cleanup_task"]]
    /\ UNCHANGED <<backend, now, cache, lock, rdb, pc, l, repo>>

(* where the caller of stop goes on: the resource is closed once the stop  *)
(* in its finally block has returned                                       *)
stop_cont(op) == IF op = "cache_service_resource" THEN "closed" ELSE "idle"

(* stop_cleanup_task up to its await; op names the caller *)
StopCleanupTask(p, op) ==
    /\ backend = "memory" /\ pc[p] = "idle" /\ Serving
    /\ IF cleanup_task = None
       THEN /\ pc' = [pc EXCEPT ![p] = stop_cont(op)]
            /\ sv' = [sv EXCEPT ![p] = [NoService EXCEPT !.op = op]]
            /\ UNCHANGED <<tasks, cleanup_task>>
       ELSE /\ tasks' = task_cancel(tasks, cleanup_task)
            /\ sv' = [sv EXCEPT ![p] = [NoService EXCEPT !.op = op,
                                                          !.task = cleanup_task]]
            /\ IF task_done(tasks, cleanup_task)
               THEN /\ cleanup_task' = None
                    /\ pc' = [pc EXCEPT ![p] = stop_cont(op)]
               ELSE /\ cleanup_task' = cleanup_task
                    /\ pc' = [pc EXCEPT ![p] = "stop_await"]
    /\ UNCHANGED <<backend, now, cache, lock, rdb, l, repo>>

(* the awaited task is done: CancelledError is caught, the field is reset *)
StopResumed(p) ==
    /\ pc[p] = "stop_await"
    /\ task_done(tasks, sv[p].task)
    /\ cleanup_task' = None
    /\ pc' = [pc EXCEPT ![p] = stop_cont(sv[p].op)]
    /\ UNCHANGED <<backend, now, cache, tasks, lock, rdb, l, sv, repo>>

(* the loop runs a task that was asked to stop: _cleanup_loop ends with    *)
(* CancelledError at its await                                             *)
SweepCancelled(t) ==
    /\ tasks[t] = "cancelling"
    /\ tasks' = [tasks EXCEPT ![t] = "cancelled"]
    /\ UNCHANGED <<backend, now, cache, cleanup_task, lock, rdb, pc, l, sv, repo>>

(* cache_service_resource after its yield: the finally block *)
ResourceShutdown(p) == StopCleanupTask(p, "cache_service_resource")

ObserveSweep(p) == h' = [h EXCEPT !.ops = h.ops + 1, !.call[p] = h.ops + 1]

InitSweep == Init /\ backend = "memory"

NextSweep ==
    \/ \E p \in Procs :
          h.ops < SweepMaxOps /\ StartCleanupTask(p) /\ ObserveSweep(p) /\ UNCHANGED rq
    \/ \E p \in Procs :
          /\ h.ops < SweepMaxOps /\ StopCleanupTask(p, "stop_cleanup_task")
          /\ ObserveSweep(p) /\ UNCHANGED rq
    \/ \E p \in Procs : ResourceShutdown(p) /\ UNCHANGED <<h, rq>>
    \/ \E p \in Procs : StopResumed(p) /\ UNCHANGED <<h, rq>>
    \/ \E t \in DOMAIN tasks : SweepCancelled(t) /\ UNCHANGED <<h, rq>>

SpecSweep == InitSweep /\ [][NextSweep]_vars

Unfinished(ts) == {t \in DOMAIN ts : ~task_done(ts, t)}

(* the step is a call of start_cleanup_task by p *)
StartCalled(p) ==
    /\ h'.ops = h.ops + 1 /\ h'.call[p] = h'.ops
    /\ sv'[p].op = "start_cleanup_task"

(* the step is the return of a stop_cleanup_task call of p, at once or     *)
(* after its await                                                         *)
StopReturned(p) ==
    \/ pc[p] = "stop_await" /\ pc'[p] # "stop_await"
    \/ /\ h'.ops = h.ops + 1 /\ h'.call[p] = h'.ops
       /\ sv'[p].op = "stop_cleanup_task" /\ pc'[p] = "idle"
    \/ pc[p] = "idle" /\ pc'[p] = "closed"

(* C23: under any interleaving of start_cleanup_task and stop_cleanup_task *)
(* calls at most one sweep task exists; a start while the instance holds a *)
(* task creates none; when stop returns the task it stopped is done and    *)
(* the instance holds no task; stop without a task changes nothing; and    *)
(* once the resource is shut down the task started at initialisation is    *)
(* done.                                                                   *)
C23_SweepLifecycle ==
    [][/\ Cardinality(Unfinished(tasks')) <= 1
       /\ \A p \in Procs :
             /\ (StartCalled(p) /\ cleanup_task # None) => tasks' = tasks
             /\ StopReturned(p) =>
                   /\ cleanup_task' = None
                   /\ sv'[p].task # None => task_done(tasks', sv'[p].task)
                   /\ cleanup_task = None => tasks' = tasks
             /\ pc'[p] = "closed" => task_done(tasks', 1)]_vars

-----------------------------------------------------------------------------
(* The in-process backend with and without its sweep.  h.shadow is the map *)
(* the same calls, at the same times and in the same order, leave when no  *)
(* sweep ever runs, and h.sres[p] is what the last call of p returns on    *)
(* that map.                                                               *)

ShadowCache(p) ==
    CASE pc[p] = "get" -> mem_get_cache(h.shadow, l[p].key, now)
      [] pc[p] = "set" -> mem_set_cache(h.shadow, l[p].key, l[p].val, l[p].sliding, now)
      [] pc[p] = "refresh" -> mem_refresh_cache(h.shadow, l[p].key, now)
      [] pc[p] = "remove" -> mem_remove_cache(h.shadow, l[p].key)
      [] pc[p] = "exists" -> mem_exists_cache(h.shadow, l[p].key, now)
      [] OTHER -> h.shadow

ShadowResult(p) ==
    CASE pc[p] = "get" -> mem_get_result(h.shadow, l[p].key, now)
      [] pc[p] = "set" -> PyNone
      [] pc[p] = "refresh" -> PyBool(mem_refresh_result(h.shadow, l[p].key, now))
      [] pc[p] = "remove" -> PyBool(mem_remove_result(h.shadow, l[p].key))
      [] pc[p] = "exists" -> PyBool(mem_exists_result(h.shadow, l[p].key, now))
      [] OTHER -> h.sres[p]

ObserveShadow(p) ==
    h' = [h EXCEPT !.ops = IF Called(p) THEN h.ops + 1 ELSE h.ops,
                   !.shadow = ShadowCache(p),
                   !.sres[p] = ShadowResult(p)]

NextShadow ==
    \/ \E p \in Procs, k \in CacheKeys :
          h.ops < ShadowMaxOps /\ ClientGet(p, k) /\ ObserveShadow(p) /\ UNCHANGED rq
    \/ \E p \in Procs, k \in CacheKeys, v \in CacheVals, s \in Slidings :
          h.ops < ShadowMaxOps /\ ClientSet(p, k, v, s) /\ ObserveShadow(p) /\ UNCHANGED rq
    \/ \E p \in Procs, k \in CacheKeys :
          h.ops < ShadowMaxOps /\ ClientRefresh(p, k) /\ ObserveShadow(p) /\ UNCHANGED rq
    \/ \E p \in Procs, k \in CacheKeys :
          h.ops < ShadowMaxOps /\ ClientRemove(p, k) /\ ObserveShadow(p) /\ UNCHANGED rq
    \/ \E p \in Procs, k \in CacheKeys :
          h.ops < ShadowMaxOps /\ ClientExists(p, k) /\ ObserveShadow(p) /\ UNCHANGED rq
    \/ \E p \in Procs : MemGet(p) /\ ObserveShadow(p) /\ UNCHANGED rq
    \/ \E p \in Procs : MemSet(p) /\ ObserveShadow(p) /\ UNCHANGED rq
    \/ \E p \in Procs : MemRefresh(p) /\ ObserveShadow(p) /\ UNCHANGED rq
    \/ \E p \in Procs : MemRemove(p) /\ ObserveShadow(p) /\ UNCHANGED rq
    \/ \E p \in Procs : MemExists(p) /\ ObserveShadow(p) /\ UNCHANGED rq
    \/ CleanupExpired /\ UNCHANGED <<h, rq>>
    \/ Tick(ShadowMaxTime) /\ UNCHANGED <<h, rq>>

SpecShadow == InitSweep /\ [][NextShadow]_vars

(* C24: the sweep is not needed for correctness: every get, set, refresh,  *)
(* remove and exists call on the in-process backend returns what it would  *)
(* return if the sweep never ran.                                          *)
C24_SweepNotNeeded ==
    \A p \in Procs : (pc[p] = "idle" /\ l[p].op # "") => l[p].res = h.sres[p]

-----------------------------------------------------------------------------
(* RateLimitService.get_current_count among rate-limit checks *)

(* int(count) with count taken for 0 whatever it is *)
current_count_always_zero(count) == PyInt(0)

(* int(count) if count is not None else 0 *)
current_count_of(count) == IF count = PyNone THEN PyInt(0) ELSE PyInt(count.v)

(* get_current_count(key): _get_window_key reads the clock and the cache   *)
(* get is awaited                                                          *)
GetCurrentCount(p, key) ==
    /\ pc[p] = "idle"
    /\ sv' = [sv EXCEPT ![p] =
                [NoService EXCEPT !.op = "get_current_count", !.key = key,
                                  !.window = WindowSeconds,
                                  !.cache_key = window_key(key, now, WindowSeconds),
                                  !.reset_at = window_end(now, WindowSeconds)]]
    /\ Call(p, "get", window_key(key, now, WindowSeconds), PyNone, None, 0, None,
            "gcc_result")
    /\ UNCHANGED <<backend, now, cache, cleanup_task, tasks, lock, rdb, repo>>

(* the get has returned: convert; an exception propagates *)
GccResult(p) ==
    /\ pc[p] = "gcc_result"
    /\ pc' = [pc EXCEPT ![p] = "gcc_return"]
    /\ sv' = [sv EXCEPT ![p].res =
                IF IsExc(l[p].res) THEN l[p].res ELSE current_count_of(l[p].res)]
    /\ UNCHANGED <<backend, now, cache, cleanup_task, tasks, lock, rdb, l, repo>>

GccReturn(p) ==
    /\ pc[p] = "gcc_return"
    /\ pc' = [pc EXCEPT ![p] = "idle"]
    /\ sv' = [sv EXCEPT ![p] = NoService]
    /\ l' = [l EXCEPT ![p] = NoFrame]
    /\ UNCHANGED <<backend, now, cache, cleanup_task, tasks, lock, rdb, repo>>

(* step[p].before: the counter as it stood when the get of p read it *)
ObservePeek(p) ==
    h' = [h EXCEPT !.ops = IF pc[p] = "idle" THEN h.ops + 1 ELSE h.ops,
                   !.step[p] = IF pc[p] = "get"
                               THEN [NoStep EXCEPT
                                       !.before = CounterInt(cache, rdb, now, l[p].key)]
                               ELSE IF pc[p] \in {"gcc_return", "rl_return"} THEN NoStep
                               ELSE h.step[p]]

NextPeek ==
    \/ \E p \in Procs, ip \in ClientIps :
          h.ops < PeekMaxOps /\ CheckRateLimit(p, ip) /\ ObservePeek(p) /\ UNCHANGED rq
    \/ \E p \in Procs, ip \in ClientIps :
          h.ops < PeekMaxOps /\ GetCurrentCount(p, ip) /\ ObservePeek(p) /\ UNCHANGED rq
    \/ \E p \in Procs : RLReadTime(p) /\ ObservePeek(p) /\ UNCHANGED rq
    \/ \E p \in Procs : MemIncrement(p) /\ ObservePeek(p) /\ UNCHANGED rq
    \/ \E p \in Procs : RedisIncrement(p) /\ ObservePeek(p) /\ UNCHANGED rq
    \/ \E p \in Procs : RedisIncrementExpire(p) /\ ObservePeek(p) /\ UNCHANGED rq
    \/ \E p \in Procs : RLResult(p) /\ ObservePeek(p) /\ UNCHANGED rq
    \/ \E p \in Procs : RLReturn(p) /\ ObservePeek(p) /\ UNCHANGED rq
    \/ \E p \in Procs : MemGet(p) /\ ObservePeek(p) /\ UNCHANGED rq
    \/ \E p \in Procs : RedisGet(p) /\ ObservePeek(p) /\ UNCHANGED rq
    \/ \E p \in Procs : RedisGetMeta(p) /\ ObservePeek(p) /\ UNCHANGED rq
    \/ \E p \in Procs : GccResult(p) /\ ObservePeek(p) /\ UNCHANGED rq
    \/ \E p \in Procs : GccReturn(p) /\ ObservePeek(p) /\ UNCHANGED rq
    \/ Tick(PeekMaxTime) /\ UNCHANGED <<h, rq>>

SpecPeek == Init /\ [][NextPeek]_vars

(* C25: get_current_count returns the value its read found in the window  *)
(* counter, 0 when the counter is absent or expired, and no step of it     *)
(* changes any counter's value or expiry.                                  *)
C25_PeekReadOnly ==
    [][\A p \in Procs :
          /\ (pc[p] = "gcc_result" /\ pc'[p] = "gcc_return") =>
                sv'[p].res = PyInt(h.step[p].before)
          /\ (sv[p].op = "get_current_count" /\ pc'[p] # pc[p]) =>
                (rdb' = rdb /\ cache' = cache)]_vars

(* a peek has read a counter that a check had incremented *)
C25_Witness ==
    \E p \in Procs : pc[p] = "gcc_return" /\ sv[p].res = PyInt(1)

-----------------------------------------------------------------------------
(* PermissionService.invalidate_role_permissions_cache.  backend = "none"  *)
(* is a PermissionService built without a cache service (the constructor's *)
(* default, cache_service=None).                                           *)

RoleModelUsers == {"u1", "u2"}

(* what get_users_by_role can return: the holders of the role, in some     *)
(* order                                                                   *)
RoleUserLists == UNION {list_of(S) : S \in SUBSET RoleModelUsers}

(* the loop stops after its first round *)
irp_more_first_only(user_ids, i) == i <= Len(user_ids) /\ i <= 1

(* for user_id in user_ids: the i-th round is due *)
irp_more(user_ids, i) == i <= Len(user_ids)

(* invalidate_role_permissions_cache(role_id) up to its first await *)
InvalidateRolePermissionsCache(p) ==
    /\ pc[p] = "idle"
    /\ \A q \in Procs : pc[q] = "idle"
    /\ sv' = [sv EXCEPT ![p] =
                [NoService EXCEPT !.op = "invalidate_role_permissions_cache"]]
    /\ pc' = [pc EXCEPT ![p] = IF backend = "none" THEN "irp_return" ELSE "irp_query"]
    /\ UNCHANGED <<backend, now, cache, cleanup_task, tasks, lock, rdb, l, repo>>

(* user_ids = await self._repository.get_users_by_role(role_id) *)
IrpQuery(p, user_ids) ==
    /\ pc[p] = "irp_query"
    /\ sv' = [sv EXCEPT ![p].user_ids = user_ids, ![p].i = 1]
    /\ pc' = [pc EXCEPT ![p] = "irp_loop"]
    /\ UNCHANGED <<backend, now, cache, cleanup_task, tasks, lock, rdb, l, repo>>

(* one round: await self.invalidate_user_permissions_cache(user_id), which *)
(* awaits self._cache.remove(cache_key)                                    *)
IrpLoop(p) ==
    /\ pc[p] = "irp_loop"
    /\ IF irp_more(sv[p].user_ids, sv[p].i)
       THEN Call(p, "remove", permissions_key(sv[p].user_ids[sv[p].i]), PyNone, None,
                 0, None, "irp_removed")
       ELSE /\ pc' = [pc EXCEPT ![p] = "irp_return"]
            /\ l' = [l EXCEPT ![p] = NoFrame]
    /\ UNCHANGED <<backend, now, cache, cleanup_task, tasks, lock, rdb, sv, repo>>

(* the remove has returned; an exception ends the loop and propagates *)
IrpRemoved(p) ==
    /\ pc[p] = "irp_removed"
    /\ IF IsExc(l[p].res)
       THEN /\ pc' = [pc EXCEPT ![p] = "irp_return"]
            /\ sv' = [sv EXCEPT ![p].res = l[p].res]
       ELSE /\ pc' = [pc EXCEPT ![p] = "irp_loop"]
            /\ sv' = [sv EXCEPT ![p].i = sv[p].i + 1]
    /\ UNCHANGED <<backend, now, cache, cleanup_task, tasks, lock, rdb, l, repo>>

IrpReturn(p) ==
    /\ pc[p] = "irp_return"
    /\ pc' = [pc EXCEPT ![p] = "idle"]
    /\ sv' = [sv EXCEPT ![p] = NoService]
    /\ l' = [l EXCEPT ![p] = NoFrame]
    /\ UNCHANGED <<backend, now, cache, cleanup_task, tasks, lock, rdb, repo>>

(* pre: the cache as the role invalidation found it, and whether it has    *)
(* queried the repository                                                  *)
ObserveRole(p) ==
    h' = [h EXCEPT !.ops = IF pc[p] = "idle" THEN h.ops + 1 ELSE h.ops,
                   !.pre = IF pc[p] = "idle" /\ pc'[p] \in {"irp_query", "irp_return"}
                           THEN [cache |-> cache, rdb |-> rdb, queried |-> FALSE]
                           ELSE IF pc[p] = "irp_query"
                           THEN [h.pre EXCEPT !.queried = TRUE]
                           ELSE h.pre]

InitRole ==
    /\ backend \in {"memory", "redis", "none"}
    /\ now = 0
    /\ cache = EmptyMap
    /\ cleanup_task = (IF backend = "memory" THEN 1 ELSE None)
    /\ tasks = (IF backend = "memory" THEN <<"sleeping">> ELSE << >>)
    /\ lock = FALSE
    /\ rdb = EmptyMap
    /\ pc = [p \in Procs |-> "idle"]
    /\ l = [p \in Procs |-> NoFrame]
    /\ sv = [p \in Procs |-> NoService]
    /\ repo = [u \in RoleModelUsers |-> {}]
    /\ rq = [p \in Procs |-> NoRequest]
    /\ h = H0

(* no role invalidation is under way *)
NoRoleInvalidation ==
    \A q \in Procs : sv[q].op # "invalidate_role_permissions_cache"

(* users' permissions are read (and cached), an unrelated key is set, and  *)
(* a role invalidation runs while nothing else does                        *)
NextRole ==
    \/ \E p \in Procs, u \in RoleModelUsers :
          /\ h.ops < RoleMaxOps /\ backend # "none" /\ NoRoleInvalidation
          /\ GetUserPermissions(p, u) /\ ObserveRole(p) /\ UNCHANGED rq
    \/ \E p \in Procs, k \in CacheKeys :
          /\ h.ops < RoleMaxOps /\ backend # "none" /\ NoRoleInvalidation
          /\ ClientSet(p, k, PyStr("a"), None) /\ ObserveRole(p) /\ UNCHANGED rq
    \/ \E p \in Procs :
          /\ h.ops < RoleMaxOps
          /\ InvalidateRolePermissionsCache(p) /\ ObserveRole(p) /\ UNCHANGED rq
    \/ \E p \in Procs, ids \in RoleUserLists :
          IrpQuery(p, ids) /\ ObserveRole(p) /\ UNCHANGED rq
    \/ \E p \in Procs : IrpLoop(p) /\ ObserveRole(p) /\ UNCHANGED rq
    \/ \E p \in Procs : IrpRemoved(p) /\ ObserveRole(p) /\ UNCHANGED rq
    \/ \E p \in Procs : IrpReturn(p) /\ ObserveRole(p) /\ UNCHANGED rq
    \/ \E p \in Procs : GupGot(p) /\ ObserveRole(p) /\ UNCHANGED rq
    \/ \E p \in Procs : GupQuery(p) /\ ObserveRole(p) /\ UNCHANGED rq
    \/ \E p \in Procs : GupSet(p) /\ ObserveRole(p) /\ UNCHANGED rq
    \/ \E p \in Procs : GupReturn(p) /\ ObserveRole(p) /\ UNCHANGED rq
    \/ \E p \in Procs : MemGet(p) /\ ObserveRole(p) /\ UNCHANGED rq
    \/ \E p \in Procs : MemSet(p) /\ ObserveRole(p) /\ UNCHANGED rq
    \/ \E p \in Procs : MemRemove(p) /\ ObserveRole(p) /\ UNCHANGED rq
    \/ \E p \in Procs : RedisGet(p) /\ ObserveRole(p) /\ UNCHANGED rq
    \/ \E p \in Procs : RedisGetMeta(p) /\ ObserveRole(p) /\ UNCHANGED rq
    \/ \E p \in Procs : RedisGetExpireKey(p) /\ ObserveRole(p) /\ UNCHANGED rq
    \/ \E p \in Procs : RedisGetExpireMeta(p) /\ ObserveRole(p) /\ UNCHANGED rq
    \/ \E p \in Procs : RedisSet(p) /\ ObserveRole(p) /\ UNCHANGED rq
    \/ \E p \in Procs : RedisSetMeta(p) /\ ObserveRole(p) /\ UNCHANGED rq
    \/ \E p \in Procs : RedisSetDelMeta(p) /\ ObserveRole(p) /\ UNCHANGED rq
    \/ \E p \in Procs : RedisRemove(p) /\ ObserveRole(p) /\ UNCHANGED rq
    \/ \E p \in Procs : RedisUnavailable(p) /\ ObserveRole(p) /\ UNCHANGED rq

SpecRole == InitRole /\ [][NextRole]_vars

(* the cache keys of the users the repository reported, with their Redis   *)
(* metadata keys                                                           *)
ReportedKeys(user_ids) ==
    {permissions_key(user_ids[i]) : i \in DOMAIN user_ids}
        \cup {MetaKey(permissions_key(user_ids[i])) : i \in DOMAIN user_ids}

IrpReturnsNormally(p) ==
    /\ pc[p] = "irp_return"
    /\ sv[p].op = "invalidate_role_permissions_cache"
    /\ ~IsExc(sv[p].res)

(* C26: when invalidate_role_permissions_cache returns normally the cache  *)
(* holds no permissions entry of any user the repository reported and      *)
(* every other entry is as it was; without a cache the repository is not   *)
(* queried.                                                                *)
C26_RoleInvalidationEffect ==
    \A p \in Procs :
        IrpReturnsNormally(p) =>
            IF backend = "none"
            THEN ~h.pre.queried /\ cache = h.pre.cache /\ rdb = h.pre.rdb
            ELSE /\ h.pre.queried
                 /\ cache = Restrict(h.pre.cache,
                                     DOMAIN h.pre.cache \ ReportedKeys(sv[p].user_ids))
                 /\ rdb = Restrict(h.pre.rdb,
                                   DOMAIN h.pre.rdb \ ReportedKeys(sv[p].user_ids))

(* a role invalidation has removed the entries of two reported users and   *)
(* left an unrelated key in place                                          *)
C26_Witness ==
    \E p \in Procs :
        /\ IrpReturnsNormally(p)
        /\ Len(sv[p].user_ids) = 2
        /\ \A i \in 1..2 :
              permissions_key(sv[p].user_ids[i]) \in DOMAIN h.pre.cache \cup DOMAIN h.pre.rdb
        /\ \E k \in CacheKeys : k \in DOMAIN cache \cup DOMAIN rdb

(* without a cache the call has returned *)
C26_WitnessNoCache ==
    \E p \in Procs : IrpReturnsNormally(p) /\ backend = "none"

-----------------------------------------------------------------------------
(* Progress of the in-process backend.  The event loop runs every ready    *)
(* coroutine in turn, so a cache call that can take its step is not passed *)
(* over for ever: weak fairness of each process's step.  The sweep's       *)
(* rounds that find nothing to delete are stuttering steps.                *)

(* get_stats(): the counts of all, live and expired entries *)
mem_get_stats(c, t) ==
    [t |-> "dict", type |-> "memory",
     total_entries |-> Cardinality(DOMAIN c),
     active_entries |-> Cardinality(DOMAIN c)
                          - Cardinality({k \in DOMAIN c : is_expired(c[k], t)}),
     expired_entries |-> Cardinality({k \in DOMAIN c : is_expired(c[k], t)})]

(* a caller awaits one of the cache's methods; "returned": the call has   *)
(* come back and its result is with the caller                             *)
LiveCall(p, op, key, sliding_expiration) ==
    /\ pc[p] = "idle"
    /\ Call(p, op, key, PyStr("a"), sliding_expiration, 0, None, "returned")
    /\ UNCHANGED <<backend, now, cache, cleanup_task, tasks, lock, rdb, sv, repo>>

(* the caller goes on; the call's frame is gone *)
LiveReturned(p) ==
    /\ pc[p] = "returned"
    /\ pc' = [pc EXCEPT ![p] = "idle"]
    /\ l' = [l EXCEPT ![p] = NoFrame]
    /\ UNCHANGED <<backend, now, cache, cleanup_task, tasks, lock, rdb, sv, repo>>

MemGetStats(p) ==
    /\ backend = "memory" /\ pc[p] = "get_stats" /\ ~lock
    /\ ReturnAt(p, mem_get_stats(cache, now))
    /\ lock' = async_with_exit
    /\ UNCHANGED <<backend, now, cache, cleanup_task, tasks, rdb, sv, repo>>

MemLabels == {"get", "set", "refresh", "remove", "exists", "clear", "get_stats"}

(* the step of the cache operation p is in *)
MemStep(p) ==
    /\ \/ MemGet(p) \/ MemSet(p) \/ MemRefresh(p) \/ MemRemove(p)
       \/ MemExists(p) \/ MemClear(p) \/ MemGetStats(p)
    /\ UNCHANGED <<h, rq>>

ObserveLive == h' = [h EXCEPT !.ops = h.ops + 1]

NextLive ==
    \/ \E p \in Procs, op \in MemLabels, k \in CacheKeys, s \in {None, 1} :
          /\ h.ops < LiveMaxOps
          /\ (op # "set" => s = None) /\ (op \in {"clear", "get_stats"} => k = "k")
          /\ LiveCall(p, op, k, s) /\ ObserveLive /\ UNCHANGED rq
    \/ \E p \in Procs : MemStep(p)
    \/ \E p \in Procs : LiveReturned(p) /\ UNCHANGED <<h, rq>>
    \/ CleanupExpired /\ UNCHANGED <<h, rq>>
    \/ \E p \in Procs : ResourceShutdown(p) /\ UNCHANGED <<h, rq>>
    \/ \E p \in Procs : StopResumed(p) /\ UNCHANGED <<h, rq>>
    \/ \E t \in DOMAIN tasks : SweepCancelled(t) /\ UNCHANGED <<h, rq>>
    \/ Advance(2, LiveMaxTime) /\ UNCHANGED <<h, rq>>

SpecLive ==
    /\ InitSweep /\ [][NextLive]_vars
    /\ \A p \in Procs : WF_vars(MemStep(p))

(* C27: on the in-process backend every get, set, refresh, remove, exists, *)
(* clear and get_stats call returns, whatever the sweep and the other      *)
(* callers do, and the lock is free whenever an operation or a sweep has   *)
(* ended, early exits and a cancelled sweep task included.                 *)
C27_NoStarvation ==
    /\ [](~lock)
    /\ \A p \in Procs : (pc[p] \in MemLabels) ~> (pc[p] = "returned")

(* a get has come back early, with a miss, after the clock has moved and   *)
(* the sweep task was cancelled by the shutdown of the other process       *)
C27_Witness ==
    /\ \E t \in DOMAIN tasks : tasks[t] = "cancelled"
    /\ \E p \in Procs :
          /\ pc[p] = "returned" /\ l[p].op = "get" /\ l[p].res = PyNone
          /\ l[p].t0 > 0
          /\ \E q \in Procs \ {p} : pc[q] = "closed"

-----------------------------------------------------------------------------
(* Read-through of get_user_permissions, one call at a time *)

(* the step of p's cache set that writes the key has left the list that    *)
(* the query found under permissions:{u}, to live CACHE_TTL_SECONDS        *)
KeyStored(p) ==
    /\ l[p].key = permissions_key(sv[p].user)
    /\ set_of(l[p].val) = h.gup[p].found
    /\ Counter(cache', rdb', now', l[p].key) = l[p].val
    /\ LiveUntil(cache', rdb', now', l[p].key, now' + CACHE_TTL_SECONDS)

(* gup[p]: what the cache get of the call returned (got), how often the    *)
(* call has queried the repository (nq) and what the query found, whether  *)
(* the set of the call wrote the entry and then its sliding policy         *)
(* (stored), and whether the call's cache read came no more than the TTL   *)
(* after the store of the previous call (due).  rd[u]: when the last call  *)
(* that missed wrote u's key.                                              *)
ReadNext(p) ==
    IF pc[p] = "gup_return" THEN NoGup
    ELSE IF pc[p] = "get"
    THEN [h.gup[p] EXCEPT
            !.due = /\ h.rd[sv[p].user] # None
                    /\ now <= h.rd[sv[p].user] + CACHE_TTL_SECONDS]
    ELSE IF pc[p] = "gup_got" THEN [h.gup[p] EXCEPT !.got = l[p].res]
    ELSE IF pc[p] = "gup_query"
    THEN [h.gup[p] EXCEPT !.nq = h.gup[p].nq + 1, !.found = repo[sv[p].user]]
    ELSE IF pc[p] = "set"
    THEN [h.gup[p] EXCEPT
            !.stored = /\ KeyStored(p)
                       /\ backend = "memory" =>
                             policy_of(cache', rdb', now', l[p].key) = CACHE_TTL_SECONDS]
    ELSE IF pc[p] = "set_meta"
    THEN [h.gup[p] EXCEPT
            !.stored = /\ h.gup[p].stored
                       /\ policy_of(cache', rdb', now', l[p].key) = CACHE_TTL_SECONDS]
    ELSE h.gup[p]

ObserveRead(p) ==
    h' = [h EXCEPT !.ops = IF pc[p] = "idle" THEN h.ops + 1 ELSE h.ops,
                   !.gup[p] = ReadNext(p),
                   !.rd = [u \in Users |->
                             IF pc[p] = "set" /\ sv[p].user = u THEN now
                             ELSE h.rd[u]]]

NextRead ==
    \/ \E u \in Users, perms \in SUBSET Permissions :
          DbChange(u, perms) /\ UNCHANGED <<h, rq>>
    \/ \E p \in Procs, u \in Users :
          /\ h.ops < ReadMaxOps /\ \A q \in Procs : pc[q] = "idle"
          /\ GetUserPermissions(p, u) /\ ObserveRead(p) /\ UNCHANGED rq
    \/ \E p \in Procs : GupGot(p) /\ ObserveRead(p) /\ UNCHANGED rq
    \/ \E p \in Procs : GupQuery(p) /\ ObserveRead(p) /\ UNCHANGED rq
    \/ \E p \in Procs : GupSet(p) /\ ObserveRead(p) /\ UNCHANGED rq
    \/ \E p \in Procs : GupReturn(p) /\ ObserveRead(p) /\ UNCHANGED rq
    \/ \E p \in Procs : MemGet(p) /\ ObserveRead(p) /\ UNCHANGED rq
    \/ \E p \in Procs : MemSet(p) /\ ObserveRead(p) /\ UNCHANGED rq
    \/ CleanupExpired /\ UNCHANGED <<h, rq>>
    \/ \E p \in Procs : RedisGet(p) /\ ObserveRead(p) /\ UNCHANGED rq
    \/ \E p \in Procs : RedisGetMeta(p) /\ ObserveRead(p) /\ UNCHANGED rq
    \/ \E p \in Procs : RedisGetExpireKey(p) /\ ObserveRead(p) /\ UNCHANGED rq
    \/ \E p \in Procs : RedisGetExpireMeta(p) /\ ObserveRead(p) /\ UNCHANGED rq
    \/ \E p \in Procs : RedisSet(p) /\ ObserveRead(p) /\ UNCHANGED rq
    \/ \E p \in Procs : RedisSetMeta(p) /\ ObserveRead(p) /\ UNCHANGED rq
    \/ Advance(CACHE_TTL_SECONDS, ReadMaxTime) /\ UNCHANGED <<h, rq>>

SpecRead == Init /\ [][NextRead]_vars

(* C28: get_user_permissions returns the cached set without a query on a   *)
(* hit; on a miss it queries the repository once, stores what it found     *)
(* under permissions:{u} with sliding expiration 300 and returns it; a     *)
(* call whose cache read comes within 300 s of the store of the previous   *)
(* call does not query, an empty permission set included.                  *)
C28_ReadThrough ==
    \A p \in Procs :
        GupReturned(p) =>
            /\ h.gup[p].got # PyNone =>
                  /\ h.gup[p].nq = 0
                  /\ sv[p].res = PySet(set_of(h.gup[p].got))
            /\ h.gup[p].got = PyNone =>
                  /\ h.gup[p].nq = 1
                  /\ h.gup[p].stored
                  /\ sv[p].res = PySet(h.gup[p].found)
            /\ h.gup[p].due => h.gup[p].nq = 0

(* the second call for a user without permissions has hit the cached       *)
(* empty list                                                              *)
C28_Witness ==
    \E p \in Procs :
        /\ GupReturned(p) /\ h.gup[p].due
        /\ h.gup[p].got = PyList(<< >>)
        /\ sv[p].res = PySet({})

-----------------------------------------------------------------------------
(* remove against exists *)

(* the step is the return of p's remove with a result *)
RemoveReturned(p) ==
    pc[p] = "remove" /\ pc'[p] = "idle" /\ l'[p].res.t = "bool"

(* the step is the write of key k by a set or an increment *)
WritesKey(k) ==
    \E p \in Procs : pc[p] \in {"set", "increment"} /\ l[p].key = k

(* C29: in both backends remove(key) returns true exactly when exists(key) *)
(* would have returned true immediately before it (the key present and not *)
(* expired), and once remove has returned the key is absent for exists and *)
(* get until the next set or increment of that key.                        *)
C29_RemoveIffExists ==
    [][/\ \A p \in Procs :
             RemoveReturned(p) =>
                /\ l'[p].res = PyBool(Present(cache, rdb, now, l[p].key))
                /\ ~Present(cache', rdb', now', l[p].key)
       /\ \A k \in CacheKeys :
             (~Present(cache, rdb, now, k) /\ Present(cache', rdb', now', k))
                => WritesKey(k)]_vars

-----------------------------------------------------------------------------
(* Which counter a request is charged to *)

(* one comma-separated item of a header value: the text and the blanks     *)
(* around it                                                               *)
HeaderItem(pad, text) == [pad |-> pad, text |-> text]
raw_of(item) == item.pad \o item.text \o item.pad

(* str.strip() of an item *)
strip(item) == item.text

(* a header value is the sequence of its comma-separated items, so         *)
(* value.split(",")[0] is its head; headers.get gives None for a header    *)
(* that is not there (no items), and the value "" (one item without text   *)
(* and without blanks) is falsy like None                                  *)
NoHeader == << >>
truthy(value) == value # NoHeader /\ ~(Len(value) = 1 /\ raw_of(value[1]) = "")

(* request.client is None (no element) or an address with a host *)
NoClient == << >>
IsoRequests ==
    [xff : {NoHeader, <<HeaderItem("", "1.2.3.4")>>,
            <<HeaderItem(" ", "/login:1.2.3.4"), HeaderItem("", "10.0.0.1")>>},
     xreal : {NoHeader, <<HeaderItem(" ", "5.6.7.8")>>},
     client : {NoClient, <<[host |-> "1.2.3.4"]>>}]

get_client_ip(request) ==
    IF truthy(request.xff) THEN strip(request.xff[1])
    ELSE IF truthy(request.xreal) THEN strip(request.xreal[1])
    ELSE IF request.client # NoClient THEN request.client[1].host
    ELSE "unknown"

(* RateLimit(requests, window, key_prefix) dependencies on the routes *)
IsoWindows == {1, 2}

(* RateLimitMiddleware.dispatch up to the check of the client's counter *)
MwCheck(p, request) == CheckRateLimit(p, get_client_ip(request))

(* RateLimit.__call__ up to the check of the route's counter *)
RouteCheck(p, request, path, window) ==
    CheckRateLimitCustom(p, route_key(path, get_client_ip(request)),
                         RouteRequests, window)

(* iso[p]: the scope, client and window that the check of p counts for *)
Scope(kind, path, client, window) ==
    [kind |-> kind, path |-> path, client |-> client, window |-> window,
     start |-> window_start(now, window)]

ObserveIso(p, scope) ==
    h' = [h EXCEPT !.ops = h.ops + 1, !.iso[p] = scope]

NextIso ==
    \/ \E p \in Procs, request \in IsoRequests :
          /\ h.ops < IsoMaxOps
          /\ MwCheck(p, request)
          /\ ObserveIso(p, Scope("global", "", get_client_ip(request), WindowSeconds))
          /\ UNCHANGED rq
    \/ \E p \in Procs, request \in IsoRequests, path \in RoutePaths, w \in IsoWindows :
          /\ h.ops < IsoMaxOps
          /\ RouteCheck(p, request, path, w)
          /\ ObserveIso(p, Scope("route", path, get_client_ip(request), w))
          /\ UNCHANGED rq
    \/ \E p \in Procs : RLReadTime(p) /\ UNCHANGED <<h, rq>>
    \/ \E p \in Procs : MemIncrement(p) /\ UNCHANGED <<h, rq>>
    \/ \E p \in Procs : RedisIncrement(p) /\ UNCHANGED <<h, rq>>
    \/ \E p \in Procs : RedisIncrementExpire(p) /\ UNCHANGED <<h, rq>>
    \/ \E p \in Procs : RLResult(p) /\ UNCHANGED <<h, rq>>
    \/ \E p \in Procs : RLReturn(p) /\ UNCHANGED <<h, rq>>
    \/ Tick(IsoMaxTime) /\ UNCHANGED <<h, rq>>

SpecIso == Init /\ [][NextIso]_vars

(* the check of p is under way *)
Checking(p) == sv[p].op \in {"check_rate_limit", "check_rate_limit_custom"}

(* C30: a rate-limit check changes the counter of its own scope, client    *)
(* and window and no other entry, and two checks that count for different  *)
(* scopes, clients, window lengths or windows never use the same cache     *)
(* entry, whatever identifier get_client_ip takes from the request.        *)
C30_CounterIsolation ==
    /\ [](\A p, q \in Procs :
             (Checking(p) /\ Checking(q) /\ h.iso[p] # h.iso[q])
                => sv[p].cache_key # sv[q].cache_key)
    /\ [][\A k \in DOMAIN rdb \cup DOMAIN rdb' :
             (k \notin DOMAIN rdb \/ k \notin DOMAIN rdb' \/ rdb'[k] # rdb[k])
                => \/ now' # now
                   \/ \E p \in Procs :
                         Checking(p) /\ pc'[p] # pc[p] /\ sv[p].cache_key = k]_vars

====

